---------------------------- MODULE Spec2Model ----------------------------
(***************************************************************************)
(* Progress computation engine of the UFLI tracking application:          *)
(* the curriculum catalog (app/config.py), the progress calculator        *)
(* (app/services/progress_calculator.py), the lesson entry ingestion      *)
(* (app/api/lesson_entries.py) and the unenrollment service               *)
(* (app/services/unenrollment_service.py), over the tables of app/models. *)
(*                                                                         *)
(* Python's None is modelled by None (0) for integers and dates, by       *)
(* NoStatus for a missing dict entry and by NoSections for a NULL JSON    *)
(* column.  Lists without duplicates whose order is never read (the       *)
(* catalog's lesson lists) are sets; tables are sequences of rows in      *)
(* insertion order.                                                        *)
(***************************************************************************)
EXTENDS Integers, Sequences, FiniteSets, TLC

VARIABLES
    student,            \* table student: student_id -> row
    lesson_status,      \* table lesson_status (the Ledger): sequence of rows
    lesson_entry,       \* table lesson_entry: sequence of rows
    progress_record,    \* table progress_record: sequence of rows
    unenrollment_log,   \* table unenrollment_log: sequence of rows
    student_archive,    \* table student_archive: sequence of rows
    pc,                 \* position of the request being served
    req,                \* the request being served (inputs read so far)
    sess,               \* the request's SQLAlchemy session (uncommitted work)
    loc,                \* the local variables of the request handler
    resp,               \* the response (or error) of the request
    npairs,             \* number of (student, status) entries processed so far
    limit,              \* number of entries the behaviour may process
    before,             \* the database when the request in progress arrived
    status_map,         \* calculator input: lesson number -> status
    sections_out,       \* calculator output: _calculate_all_skill_sections
    nedits,             \* number of statuses recorded into status_map
    student_grade,      \* calculator input: student.grade.name, or NoGrade
    progress_out,       \* calculator output: calculate_student_progress
    race                \* the two requests served concurrently, or NoRace

dbvars == <<student, lesson_status, lesson_entry, progress_record,
            unenrollment_log, student_archive>>
reqvars == <<pc, req, sess, loc, resp, npairs, limit, before>>
calcvars == <<status_map, sections_out, nedits, student_grade, progress_out>>
vars == <<student, lesson_status, lesson_entry, progress_record,
          unenrollment_log, student_archive, pc, req, sess, loc, resp, npairs, limit,
          before,
          status_map, sections_out, nedits, student_grade, progress_out, race>>

-----------------------------------------------------------------------------
(* Bounds of the model *)

\* entries (student, status) processed by the requests of one behaviour
MaxPairs == 2
\* entries of the one submission of a behaviour of SpecBatch
MaxBatch == 3
\* statuses recorded on top of the initial ledger of the calculator
MaxEdits == 1

None == 0
NoStatus == "-"
NoSections == <<>>
\* a student whose grade_id is unset
NoGrade == ""
\* no call of the calculator yet
NoProgress == <<>>
NoRace == <<>>

-----------------------------------------------------------------------------
(* Curriculum catalog: app/config.py *)

TOTAL_LESSONS == 128

AllLessons == 1..TOTAL_LESSONS

\* Python's range(a, b)
range(a, b) == a..(b - 1)

REVIEW_LESSONS ==
    {35, 36, 37, 39, 40, 41, 49, 53, 57, 59, 62, 71, 76, 79, 83, 88, 92, 97,
     102, 104, 105, 106, 128}

FOUNDATIONAL_LESSONS == range(1, 35)

GradeNames == {"PreK", "KG", "G1", "G2", "G3", "G4", "G5", "G6", "G7", "G8"}

\* a grade configuration; has_current_year is whether the dict holds the key
\* "current_year_lessons"
GRADE_LESSON_CONFIG ==
    [g \in GradeNames |->
        CASE g = "PreK" -> [min_lessons |-> range(1, 27),
                            has_current_year |-> FALSE,
                            current_year_lessons |-> {},
                            benchmark_denominator |-> 26]
          [] g = "KG"   -> [min_lessons |-> range(1, 35),
                            has_current_year |-> FALSE,
                            current_year_lessons |-> {},
                            benchmark_denominator |-> 34]
          [] g = "G1"   -> [min_lessons |-> range(1, 35) \cup range(42, 54),
                            has_current_year |-> TRUE,
                            current_year_lessons |-> range(42, 54),
                            benchmark_denominator |-> 44]
          [] g = "G2"   -> [min_lessons |-> range(1, 35) \cup range(42, 63),
                            has_current_year |-> TRUE,
                            current_year_lessons |-> range(54, 63),
                            benchmark_denominator |-> 56]
          [] g = "G3"   -> [min_lessons |-> range(1, 35) \cup range(42, 63),
                            has_current_year |-> TRUE,
                            current_year_lessons |-> range(63, 84),
                            benchmark_denominator |-> 56]
          [] g \in {"G4", "G5"} ->
                           [min_lessons |-> range(1, 35) \cup range(42, 111),
                            has_current_year |-> TRUE,
                            current_year_lessons |-> range(84, 111),
                            benchmark_denominator |-> 103]
          [] OTHER      -> [min_lessons |-> range(1, 35) \cup range(42, 111),
                            has_current_year |-> TRUE,
                            current_year_lessons |-> range(84, 129),
                            benchmark_denominator |-> 103]]

SectionIds == 1..17

\* a catalog whose section 3 starts on the last lesson of section 1
SKILL_SECTIONS_inclusive ==
    [id \in SectionIds |->
        CASE id = 1  -> range(1, 35)
          [] id = 2  -> {25, 27}
          [] id = 3  -> range(34, 42)
          [] id = 4  -> range(42, 54)
          [] id = 5  -> range(54, 63)
          [] id = 6  -> range(63, 69)
          [] id = 7  -> range(69, 77)
          [] id = 8  -> range(77, 84)
          [] id = 9  -> range(84, 89)
          [] id = 10 -> range(89, 95)
          [] id = 11 -> range(95, 98)
          [] id = 12 -> {98}
          [] id = 13 -> range(99, 107)
          [] id = 14 -> range(107, 111)
          [] id = 15 -> range(111, 119)
          [] id = 16 -> range(119, 127)
          [] OTHER   -> {127, 128}]

SKILL_SECTIONS ==
    [id \in SectionIds |->
        CASE id = 1  -> range(1, 35)
          [] id = 2  -> {25, 27}
          [] id = 3  -> range(35, 42)
          [] id = 4  -> range(42, 54)
          [] id = 5  -> range(54, 63)
          [] id = 6  -> range(63, 69)
          [] id = 7  -> range(69, 77)
          [] id = 8  -> range(77, 84)
          [] id = 9  -> range(84, 89)
          [] id = 10 -> range(89, 95)
          [] id = 11 -> range(95, 98)
          [] id = 12 -> {98}
          [] id = 13 -> range(99, 107)
          [] id = 14 -> range(107, 111)
          [] id = 15 -> range(111, 119)
          [] id = 16 -> range(119, 127)
          [] OTHER   -> {127, 128}]

-----------------------------------------------------------------------------
(* Numbers.  A float that is a quotient of small integers is kept as the  *)
(* reduced fraction [num, den]; two such floats are equal exactly when    *)
(* the fractions are.                                                      *)

RECURSIVE GCD(_, _)
GCD(a, b) == IF b = 0 THEN a ELSE GCD(b, a % b)

Frac(n, d) == LET g == GCD(n, d) IN [num |-> n \div g, den |-> d \div g]

\* the float (count / denominator) * 100
Pct(count, denominator) == Frac(count * 100, denominator)

\* Decimal(str(round(pct, 2))), in hundredths; Python rounds a tie to even
Round2(f) ==
    LET q == (f.num * 100) \div f.den
        r == (f.num * 100) % f.den
    IN  IF 2 * r > f.den \/ (2 * r = f.den /\ q % 2 = 1) THEN q + 1 ELSE q

-----------------------------------------------------------------------------
(* Progress calculator: app/services/progress_calculator.py               *)
(* m is the dict status_map: lesson number -> "Y" | "N" | "A" | NoStatus   *)

YCount(m, lessons) == Cardinality({l \in lessons : m[l] = "Y"})

\* a foundational metric that counts every lesson not failed
calculate_foundational_lenient(m) ==
    LET count == Cardinality({l \in FOUNDATIONAL_LESSONS : m[l] # "N"})
    IN  [count |-> count, pct |-> Pct(count, 34)]

calculate_foundational(m) ==
    LET count == YCount(m, FOUNDATIONAL_LESSONS)
    IN  [count |-> count, pct |-> Pct(count, 34)]

\* a min-grade metric that keeps the review lessons of min_lessons
calculate_min_grade_reviewed(m, grade_config) ==
    LET count == YCount(m, grade_config.min_lessons)
        denominator == Cardinality(grade_config.min_lessons)
    IN  [count |-> count,
         pct |-> IF denominator > 0 THEN Pct(count, denominator) ELSE Frac(0, 1)]

calculate_min_grade(m, grade_config) ==
    LET non_review_lessons == grade_config.min_lessons \ REVIEW_LESSONS
        count == YCount(m, non_review_lessons)
        denominator == Cardinality(non_review_lessons)
    IN  [count |-> count,
         pct |-> IF denominator > 0 THEN Pct(count, denominator) ELSE Frac(0, 1)]

calculate_full_grade(m, grade_config) ==
    LET current_year == IF grade_config.has_current_year
                        THEN grade_config.current_year_lessons ELSE {}
        count == YCount(m, current_year)
    IN  IF current_year = {}
        THEN [count |-> 0, pct |-> Frac(0, 1)]
        ELSE [count |-> count, pct |-> Pct(count, Cardinality(current_year))]

\* a benchmark that divides by 34, the denominator of a configuration
\* without "benchmark_denominator", whatever the grade
calculate_benchmark_default(m, grade_config) ==
    LET count == YCount(m, grade_config.min_lessons \ REVIEW_LESSONS)
    IN  [count |-> count, pct |-> Pct(count, 34)]

\* a benchmark that counts the review lessons of min_lessons too
calculate_benchmark_reviewed(m, grade_config) ==
    LET denominator == grade_config.benchmark_denominator
        count == YCount(m, grade_config.min_lessons)
    IN  [count |-> count,
         pct |-> IF denominator > 0 THEN Pct(count, denominator) ELSE Frac(0, 1)]

calculate_benchmark(m, grade_config) ==
    LET denominator == grade_config.benchmark_denominator
        non_review_lessons == grade_config.min_lessons \ REVIEW_LESSONS
        count == YCount(m, non_review_lessons)
    IN  [count |-> count,
         pct |-> IF denominator > 0 THEN Pct(count, denominator) ELSE Frac(0, 1)]

\* a calculator that takes the lowest passed lesson for the current lesson
calculate_current_lesson_lowest(m) ==
    LET passed_lessons == {l \in DOMAIN m : m[l] = "Y"}
    IN  IF passed_lessons = {} THEN None
        ELSE CHOOSE l \in passed_lessons : \A k \in passed_lessons : l <= k

\* a calculator that takes the highest lesson with any status
calculate_current_lesson_recorded(m) ==
    LET recorded_lessons == {l \in DOMAIN m : m[l] # NoStatus}
    IN  IF recorded_lessons = {} THEN None
        ELSE CHOOSE l \in recorded_lessons : \A k \in recorded_lessons : k <= l

\* max(passed_lessons) if passed_lessons else None
calculate_current_lesson(m) ==
    LET passed_lessons == {l \in DOMAIN m : m[l] = "Y"}
    IN  IF passed_lessons = {} THEN None
        ELSE CHOOSE l \in passed_lessons : \A k \in passed_lessons : k <= l

\* an override that waits for every review lesson of the section to be "Y"
ReviewOverrideAllRecorded(m, section_lessons) ==
    LET review_lessons == section_lessons \cap REVIEW_LESSONS
    IN  /\ review_lessons # {}
        /\ \A l \in review_lessons : m[l] = "Y"

\* the review override of a section: some review lesson has a status and
\* every review lesson that has one has "Y"
ReviewOverride(m, section_lessons) ==
    LET review_lessons == section_lessons \cap REVIEW_LESSONS
        recorded == {l \in review_lessons : m[l] # NoStatus}
    IN  /\ review_lessons # {}
        /\ recorded # {}
        /\ \A l \in recorded : m[l] = "Y"

\* a section percentage that counts the review lessons with the others
calculate_section_percentage_whole(m, section_lessons) ==
    IF section_lessons = {} THEN Frac(0, 1)
    ELSE IF ReviewOverride(m, section_lessons) THEN Frac(100, 1)
    ELSE Pct(YCount(m, section_lessons), Cardinality(section_lessons))

calculate_section_percentage(m, section_lessons) ==
    LET non_review_lessons == section_lessons \ REVIEW_LESSONS
    IN  IF section_lessons = {} THEN Frac(0, 1)
        ELSE IF ReviewOverride(m, section_lessons) THEN Frac(100, 1)
        ELSE IF non_review_lessons = {} THEN Frac(0, 1)
        ELSE Pct(YCount(m, non_review_lessons), Cardinality(non_review_lessons))

calculate_all_skill_sections(m) ==
    [id \in SectionIds |-> calculate_section_percentage(m, SKILL_SECTIONS[id])]

-----------------------------------------------------------------------------
(* Rows of the database as the application finds it.  The caller's site   *)
(* is "A"; "s9", "g9" and "t9" are rows of another site.                   *)

SiteId == "A"

StudentIds == {"s1", "s2", "s9"}
Students == {"s1", "s2"}

\* group_id -> row of table "group"
Groups ==
    [g \in {"g1", "g2", "g9"} |->
        [site_id |-> IF g = "g9" THEN "B" ELSE "A",
         is_tutoring_group |-> (g = "g2")]]

\* teacher_id -> row of table teacher
Teachers ==
    [t \in {"t1", "t2", "t9"} |-> [site_id |-> IF t = "t9" THEN "B" ELSE "A"]]

\* table lesson, seeded with the 128 lessons: the lesson_id of lesson n
LessonId(n) == 1000 + n
LessonIds == {LessonId(n) : n \in AllLessons}
\* lesson.number of the row with this lesson_id
LessonNumber(lesson_id) == lesson_id - 1000

\* a datetime, and datetime.date()
DateTimes == {[day |-> 1, secs |-> 30600], [day |-> 2, secs |-> 52200]}
DateOf(dt) == dt.day

\* the default values of the columns of a new ProgressRecord
NewProgressRecord(student_id) ==
    [student_id |-> student_id, record_type |-> "ufli_map",
     foundational_count |-> 0, foundational_pct |-> 0,
     min_grade_count |-> 0, min_grade_pct |-> 0,
     full_grade_count |-> 0, full_grade_pct |-> 0,
     benchmark_count |-> 0, benchmark_pct |-> 0,
     skill_sections |-> NoSections]

\* a student as create_student leaves it
NewStudent(site_id, grade) ==
    [site_id |-> site_id, grade |-> grade, status |-> "active",
     unenrollment_date |-> None, current_lesson |-> None,
     last_activity_date |-> None]

\* the database bundled as one value
DB == [student |-> student, lesson_status |-> lesson_status,
       lesson_entry |-> lesson_entry, progress_record |-> progress_record,
       unenrollment_log |-> unenrollment_log,
       student_archive |-> student_archive]

\* Query.first() on the indices of the matching rows: the first of them
\* (0 when there is none)
First(hits) ==
    IF hits = {} THEN 0 ELSE CHOOSE i \in hits : \A j \in hits : i <= j

-----------------------------------------------------------------------------
(* Student.is_active: app/models/student.py *)

is_active(row) == row.status = "active"

\* Assigning to Student.is_active: the property has no setter, so the
\* assignment raises AttributeError and the object is left as it was.
set_is_active(row, value) == [raised |-> TRUE, row |-> row]

-----------------------------------------------------------------------------
(* Lesson entry ingestion: create_lesson_entries, app/api/lesson_entries.py *)
(* A request R is [group_id, teacher_id, lesson_id, entry_date, students];  *)
(* R.students is the list of [student_id, status].                          *)

\* a validation that does not look the teacher up
ValidateRequestNoTeacher(R, site_id) ==
    IF ~(R.group_id \in DOMAIN Groups /\ Groups[R.group_id].site_id = site_id)
    THEN "Invalid group_id"
    ELSE IF R.lesson_id \notin LessonIds
    THEN "Invalid lesson_id"
    ELSE ""

\* lines 58-79: the detail of the HTTP 400 error, "" when the request is valid
ValidateRequest(R, site_id) ==
    IF ~(R.group_id \in DOMAIN Groups /\ Groups[R.group_id].site_id = site_id)
    THEN "Invalid group_id"
    ELSE IF ~(R.teacher_id \in DOMAIN Teachers
              /\ Teachers[R.teacher_id].site_id = site_id)
    THEN "Invalid teacher_id"
    ELSE IF R.lesson_id \notin LessonIds
    THEN "Invalid lesson_id"
    ELSE ""

\* lines 81-84
EntryTypeOf(R) ==
    IF Groups[R.group_id].is_tutoring_group THEN "tutoring" ELSE "small_group"

\* a new Session: nothing loaded is modified, nothing is pending
\* (autoflush=False: pending rows reach the database at flush or commit only)
NewSession(db) ==
    [student |-> db.student, status_rows |-> db.lesson_status,
     new_status |-> <<>>, new_entries |-> <<>>]

\* lines 86-91
NewLocals ==
    [created_count |-> 0, updated_count |-> 0, unenrolled_count |-> 0,
     errors |-> <<>>, students_to_recalculate |-> <<>>]

\* lines 96-99: the student of this id in the caller's site ("" when none)
FindStudent(tbl, student_id, site_id) ==
    IF student_id \in DOMAIN tbl /\ tbl[student_id].site_id = site_id
    THEN student_id ELSE ""

\* lines 101-103: the student is not found
StudentNotFound(S, L, student_id) ==
    [sess |-> S,
     loc |-> [L EXCEPT !.errors =
                Append(@, [student_id |-> student_id,
                           error |-> "Student not found"])]]

\* a status "U" that also queues the student for the calculation
HandleUnenrollmentRecalculating(S, L, R, sid) ==
    [sess |-> [S EXCEPT !.student[sid].status = "unenrolled",
                        !.student[sid].unenrollment_date = DateOf(R.entry_date)],
     loc |-> [L EXCEPT !.unenrolled_count = @ + 1,
                       !.students_to_recalculate = Append(@, sid)]]

\* a status "U" that is also recorded as the LessonStatus of the lesson
HandleUnenrollmentRecording(S, L, R, sid) ==
    [sess |-> [S EXCEPT !.student[sid].status = "unenrolled",
                        !.student[sid].unenrollment_date = DateOf(R.entry_date),
                        !.new_status = Append(@,
                            [student_id |-> sid, lesson_id |-> R.lesson_id,
                             group_id |-> R.group_id, teacher_id |-> R.teacher_id,
                             status |-> "U", completed_date |-> DateOf(R.entry_date),
                             is_initial_assessment |-> FALSE])],
     loc |-> [L EXCEPT !.unenrolled_count = @ + 1]]

\* lines 105-111: status "U"
HandleUnenrollment(S, L, R, sid) ==
    [sess |-> [S EXCEPT !.student[sid].status = "unenrolled",
                        !.student[sid].unenrollment_date = DateOf(R.entry_date)],
     loc |-> [L EXCEPT !.unenrolled_count = @ + 1]]

\* lines 113-124: the LessonEntry added to the session
NewLessonEntry(R, sid, status) ==
    [site_id |-> SiteId, student_id |-> sid, group_id |-> R.group_id,
     teacher_id |-> R.teacher_id, lesson_id |-> R.lesson_id,
     entry_date |-> R.entry_date, status |-> status,
     entry_type |-> EntryTypeOf(R)]

\* lines 127-131: the current LessonStatus of (student, lesson) that the
\* database holds; rows pending in the session are not flushed before the
\* query (autoflush=False), so it does not see them
ExistingStatus(db, sid, lesson_id) ==
    First({i \in DOMAIN db.lesson_status :
              /\ db.lesson_status[i].student_id = sid
              /\ db.lesson_status[i].lesson_id = lesson_id
              /\ db.lesson_status[i].is_initial_assessment = FALSE})

\* lines 133-150: update the existing LessonStatus or add a new one
UpsertLessonStatus(db, S, L, R, sid, status) ==
    LET existing_status == ExistingStatus(db, sid, R.lesson_id)
    IN  IF existing_status # 0
        THEN [sess |-> [S EXCEPT
                !.status_rows[existing_status].status = status,
                !.status_rows[existing_status].completed_date = DateOf(R.entry_date),
                !.status_rows[existing_status].group_id = R.group_id,
                !.status_rows[existing_status].teacher_id = R.teacher_id],
              loc |-> [L EXCEPT !.updated_count = @ + 1]]
        ELSE [sess |-> [S EXCEPT !.new_status = Append(@,
                [student_id |-> sid, lesson_id |-> R.lesson_id,
                 group_id |-> R.group_id, teacher_id |-> R.teacher_id,
                 status |-> status, completed_date |-> DateOf(R.entry_date),
                 is_initial_assessment |-> FALSE])],
              loc |-> [L EXCEPT !.created_count = @ + 1]]

\* lines 155-158: the student's current_lesson after this entry
AdvanceCurrentLesson(current_lesson, status, number) ==
    IF status = "Y" /\ (current_lesson = None \/ number > current_lesson)
    THEN number ELSE current_lesson

\* lines 113-160: status Y, N or A
RecordEntry(db, S, L, R, sid, status) ==
    LET S1 == [S EXCEPT !.new_entries = Append(@, NewLessonEntry(R, sid, status))]
        u  == UpsertLessonStatus(db, S1, L, R, sid, status)
    IN  [sess |-> [u.sess EXCEPT
                    !.student[sid].last_activity_date = DateOf(R.entry_date),
                    !.student[sid].current_lesson =
                        AdvanceCurrentLesson(@, status, LessonNumber(R.lesson_id))],
         loc |-> [u.loc EXCEPT !.students_to_recalculate = Append(@, sid)]]

\* lines 93-163: one iteration of the loop over entry_data.students
ProcessEntry(db, S, L, R, entry) ==
    LET sid == FindStudent(S.student, entry.student_id, SiteId)
    IN  IF sid = "" THEN StudentNotFound(S, L, entry.student_id)
        ELSE IF entry.status = "U" THEN HandleUnenrollment(S, L, R, sid)
        ELSE RecordEntry(db, S, L, R, sid, entry.status)

\* the unique constraint uq_student_lesson_assessment of lesson_status
StatusKey(row) == <<row.student_id, row.lesson_id, row.is_initial_assessment>>
UniqueStatusKeys(tbl) ==
    \A i, j \in 1..Len(tbl) : StatusKey(tbl[i]) = StatusKey(tbl[j]) => i = j

\* a commit to a lesson_status table without the unique constraint
CommitSessionUnchecked(db, S) ==
    [raised |-> "",
     db |-> [db EXCEPT !.student = S.student,
                       !.lesson_status = S.status_rows \o S.new_status,
                       !.lesson_entry = @ \o S.new_entries]]

\* line 165: db.commit() flushes the session.  A pending LessonStatus whose
\* key is already taken violates the unique constraint: IntegrityError, and
\* nothing of the session is written.
CommitSession(db, S) ==
    LET tbl == S.status_rows \o S.new_status
    IN  IF UniqueStatusKeys(tbl)
        THEN [raised |-> "",
              db |-> [db EXCEPT !.student = S.student,
                                !.lesson_status = tbl,
                                !.lesson_entry = @ \o S.new_entries]]
        ELSE [raised |-> "IntegrityError", db |-> db]

-----------------------------------------------------------------------------
(* calculate_student_progress: app/services/progress_calculator.py *)

\* _get_student_statuses: {ls.lesson.number: ls.status.value}, a later row of
\* the query replacing an earlier one with the same lesson number
StudentStatuses(db, student_id, is_initial) ==
    [l \in AllLessons |->
        LET hits == {i \in DOMAIN db.lesson_status :
                        /\ db.lesson_status[i].student_id = student_id
                        /\ db.lesson_status[i].is_initial_assessment = is_initial
                        /\ LessonNumber(db.lesson_status[i].lesson_id) = l}
        IN  IF hits = {} THEN NoStatus
            ELSE db.lesson_status[CHOOSE i \in hits : \A j \in hits : j <= i].status]

\* lines 71-72: the configuration of the student's grade, KG's for a grade
\* name the catalog does not know
GradeConfig(grade_name) ==
    IF grade_name \in GradeNames THEN GRADE_LESSON_CONFIG[grade_name]
    ELSE GRADE_LESSON_CONFIG["KG"]

\* lines 109-118: the columns written to the ProgressRecord
ProgressColumns(m, grade_config) ==
    LET foundational == calculate_foundational(m)
        min_grade == calculate_min_grade(m, grade_config)
        full_grade == calculate_full_grade(m, grade_config)
        benchmark == calculate_benchmark(m, grade_config)
    IN  [foundational_count |-> foundational.count,
         foundational_pct |-> Round2(foundational.pct),
         min_grade_count |-> min_grade.count,
         min_grade_pct |-> Round2(min_grade.pct),
         full_grade_count |-> full_grade.count,
         full_grade_pct |-> Round2(full_grade.pct),
         benchmark_count |-> benchmark.count,
         benchmark_pct |-> Round2(benchmark.pct),
         skill_sections |-> calculate_all_skill_sections(m)]

\* a calculator that adds a ProgressRecord at each calculation
EnsureProgressRecordAppending(tbl, student_id) ==
    [tbl |-> Append(tbl, NewProgressRecord(student_id)), at |-> Len(tbl) + 1]

\* lines 96-107: the student's ufli_map ProgressRecord, added when absent
EnsureProgressRecord(tbl, student_id) ==
    LET progress_record_ == First({i \in DOMAIN tbl :
                                     /\ tbl[i].student_id = student_id
                                     /\ tbl[i].record_type = "ufli_map"})
    IN  IF progress_record_ = 0
        THEN [tbl |-> Append(tbl, NewProgressRecord(student_id)), at |-> Len(tbl) + 1]
        ELSE [tbl |-> tbl, at |-> progress_record_]

\* a calculation that writes the ProgressRecord and leaves
\* student.current_lesson as the ingestion set it
calculate_student_progress_keeping(db, student_id) ==
    LET m == StudentStatuses(db, student_id, FALSE)
        cols == ProgressColumns(m, GradeConfig(db.student[student_id].grade))
        e == EnsureProgressRecord(db.progress_record, student_id)
    IN  [db EXCEPT
            !.progress_record =
                [e.tbl EXCEPT ![e.at] =
                    [student_id |-> student_id, record_type |-> "ufli_map"] @@ cols]]

\* lines 60-120: the database after calculate_student_progress(student) and
\* its commit
calculate_student_progress(db, student_id) ==
    LET m == StudentStatuses(db, student_id, FALSE)
        cols == ProgressColumns(m, GradeConfig(db.student[student_id].grade))
        e == EnsureProgressRecord(db.progress_record, student_id)
    IN  [db EXCEPT
            !.student[student_id].current_lesson = calculate_current_lesson(m),
            !.progress_record =
                [e.tbl EXCEPT ![e.at] =
                    [student_id |-> student_id, record_type |-> "ufli_map"] @@ cols]]

\* lines 167-175 of create_lesson_entries: the affected students in turn
RECURSIVE RecalculateAll(_, _)
RecalculateAll(db, students) ==
    IF students = <<>> THEN db
    ELSE RecalculateAll(calculate_student_progress(db, Head(students)), Tail(students))

\* lines 93-163: the loop over entry_data.students
RECURSIVE ProcessEntries(_, _, _, _, _)
ProcessEntries(db, S, L, R, entries) ==
    IF entries = <<>> THEN [sess |-> S, loc |-> L]
    ELSE LET p == ProcessEntry(db, S, L, R, Head(entries))
         IN  ProcessEntries(db, p.sess, p.loc, R, Tail(entries))

\* lines 177-189: the response body
Response(L) ==
    [op |-> "create_lesson_entries", raised |-> "", code |-> 201, detail |-> "",
     created |-> L.created_count, updated |-> L.updated_count,
     unenrolled |-> L.unenrolled_count, errors |-> L.errors]

\* an exception that leaves the handler: the HTTP error; the session is
\* closed without commit (get_db, app/database.py)
Failure(raised, code, detail) ==
    [op |-> "create_lesson_entries", raised |-> raised, code |-> code,
     detail |-> detail, created |-> 0, updated |-> 0, unenrolled |-> 0,
     errors |-> <<>>]

\* lines 35-189: the whole handler
create_lesson_entries(db, R) ==
    LET invalid == ValidateRequest(R, SiteId)
        p == ProcessEntries(db, NewSession(db), NewLocals, R, R.students)
        c == CommitSession(db, p.sess)
    IN  IF invalid # "" THEN [db |-> db, resp |-> Failure("HTTPException", 400, invalid)]
        ELSE IF c.raised # "" THEN [db |-> db, resp |-> Failure(c.raised, 500, "")]
        ELSE [db |-> RecalculateAll(c.db, p.loc.students_to_recalculate),
              resp |-> Response(p.loc)]

-----------------------------------------------------------------------------
(* Unenrollment service: app/services/unenrollment_service.py.  Every call *)
(* runs in a session of its own; an exception closes it without commit.    *)
(* A text column is the sequence of the pieces appended to it.             *)

\* lines 84-158: the archive of the student's data.  The snapshot reads
\* ls.notes of every LessonStatus of the student; LessonStatus has no such
\* attribute, so a student with a LessonStatus raises AttributeError.
archive_student_data(db, student_id, unenrollment_log_id) ==
    LET statuses == {i \in DOMAIN db.lesson_status :
                        db.lesson_status[i].student_id = student_id}
        records == {i \in DOMAIN db.progress_record :
                       db.progress_record[i].student_id = student_id}
    IN  IF statuses # {}
        THEN [raised |-> "AttributeError", archive |-> <<>>]
        ELSE [raised |-> "",
              archive |->
                [archive_id |-> Len(db.student_archive) + 1,
                 student_id |-> student_id,
                 unenrollment_log_id |-> unenrollment_log_id,
                 initial_assessment_data |-> None,
                 ufli_map_data |-> None,
                 grade_summary_data |->
                    [progress_records |-> {db.progress_record[i] : i \in records},
                     current_lesson |-> db.student[student_id].current_lesson,
                     grade |-> db.student[student_id].grade]]]

\* an unenrollment that commits the log where the code flushes it
unenroll_student_committing(db, student_id, reported_by_id, lesson_at_unenroll, notes) ==
    LET log == [log_id |-> Len(db.unenrollment_log) + 1,
                student_id |-> student_id, reported_by_id |-> reported_by_id,
                lesson_at_unenroll |-> lesson_at_unenroll,
                status |-> "pending", notes |-> notes]
        logged == [db EXCEPT !.unenrollment_log = Append(@, log)]
        a == archive_student_data(db, student_id, log.log_id)
        set == set_is_active(db.student[student_id], FALSE)
    IN  IF student_id \notin DOMAIN db.student
        THEN [db |-> db, raised |-> "ValueError"]
        ELSE IF a.raised # "" THEN [db |-> logged, raised |-> a.raised]
        ELSE IF set.raised THEN [db |-> logged, raised |-> "AttributeError"]
        ELSE [db |-> [logged EXCEPT !.student_archive = Append(@, a.archive),
                                    !.student[student_id] = set.row],
              raised |-> ""]

\* lines 33-82
unenroll_student(db, student_id, reported_by_id, lesson_at_unenroll, notes) ==
    LET log == [log_id |-> Len(db.unenrollment_log) + 1,
                student_id |-> student_id, reported_by_id |-> reported_by_id,
                lesson_at_unenroll |-> lesson_at_unenroll,
                status |-> "pending", notes |-> notes]
        a == archive_student_data(db, student_id, log.log_id)
        set == set_is_active(db.student[student_id], FALSE)
    IN  IF student_id \notin DOMAIN db.student
        THEN [db |-> db, raised |-> "ValueError"]
        ELSE IF a.raised # "" THEN [db |-> db, raised |-> a.raised]
        ELSE IF set.raised THEN [db |-> db, raised |-> "AttributeError"]
        ELSE [db |-> [db EXCEPT !.unenrollment_log = Append(@, log),
                                !.student_archive = Append(@, a.archive),
                                !.student[student_id] = set.row],
              raised |-> ""]

\* the row of this log_id (0 when there is none)
FindLog(db, log_id) ==
    First({i \in DOMAIN db.unenrollment_log :
              db.unenrollment_log[i].log_id = log_id})

\* lines 160-180
confirm_unenrollment(db, log_id) ==
    LET log == FindLog(db, log_id)
    IN  IF log = 0 THEN [db |-> db, raised |-> "ValueError"]
        ELSE [db |-> [db EXCEPT !.unenrollment_log[log].status = "confirmed"],
              raised |-> ""]

\* lines 182-215
resolve_unenrollment(db, log_id, notes) ==
    LET log == FindLog(db, log_id)
        student_id == db.unenrollment_log[log].student_id
        set == set_is_active(db.student[student_id], TRUE)
        resolved == [db.unenrollment_log EXCEPT
                        ![log].status = "resolved",
                        ![log].notes = IF notes # <<>>
                                       THEN @ \o <<"\nResolution: ">> \o notes
                                       ELSE @]
    IN  IF log = 0 THEN [db |-> db, raised |-> "ValueError"]
        ELSE IF student_id \in DOMAIN db.student /\ set.raised
        THEN [db |-> db, raised |-> "AttributeError"]
        ELSE [db |-> [db EXCEPT !.unenrollment_log = resolved,
                                !.student[student_id] = set.row],
              raised |-> ""]

\* lines 268-316
restore_student(db, student_id) ==
    LET set == set_is_active(db.student[student_id], TRUE)
        pending_logs == {i \in DOMAIN db.unenrollment_log :
                            /\ db.unenrollment_log[i].student_id = student_id
                            /\ db.unenrollment_log[i].status = "pending"}
    IN  IF student_id \notin DOMAIN db.student
        THEN [db |-> db, raised |-> "ValueError"]
        ELSE IF set.raised THEN [db |-> db, raised |-> "AttributeError"]
        ELSE [db |-> [db EXCEPT
                !.student[student_id] = set.row,
                !.unenrollment_log =
                    [i \in DOMAIN @ |->
                        IF i \in pending_logs
                        THEN [@[i] EXCEPT
                                !.status = "resolved",
                                !.notes = @ \o <<"\nAuto-resolved: Student restored">>]
                        ELSE @[i]]],
              raised |-> ""]

\* recalculate_student_progress, app/api/students.py lines 333-353
recalculate_student_progress(db, student_id) ==
    IF FindStudent(db.student, student_id, SiteId) = ""
    THEN [db |-> db, raised |-> "HTTPException"]
    ELSE [db |-> calculate_student_progress(db, student_id), raised |-> ""]

-----------------------------------------------------------------------------
(* Inputs of the requests *)

\* lessons that requests submit
LessonPool == {25, 49}

\* group, teacher, lesson and date of the requests: valid ones, and one with
\* a group of another site, an unknown group, a teacher of another site and
\* an unknown lesson
RequestContexts ==
    { [group_id |-> c[1], teacher_id |-> c[2], lesson_id |-> LessonId(n),
       entry_date |-> c[3]] :
         c \in {<<"g1", "t1", [day |-> 1, secs |-> 30600]>>,
                <<"g2", "t2", [day |-> 2, secs |-> 52200]>>},
         n \in LessonPool }
    \cup
    { [group_id |-> c[1], teacher_id |-> c[2], lesson_id |-> c[3],
       entry_date |-> [day |-> 1, secs |-> 30600]] :
         c \in {<<"g9", "t1", LessonId(25)>>, <<"g0", "t1", LessonId(25)>>,
                <<"g1", "t9", LessonId(25)>>, <<"g1", "t1", LessonId(0)>>} }

\* the entries: every status for the two students of the site; the student
\* of another site, whose status is never read
EntryStudents == {"s1", "s2", "s9"}
EntryStatuses == {"Y", "N", "A", "U"}
Entries ==
    {[student_id |-> sid, status |-> st] : sid \in Students, st \in EntryStatuses}
    \cup {[student_id |-> "s9", status |-> "Y"]}

\* student ids and log ids given to the service: also an id of no row
ServiceStudents == {"s1", "s2", "s0"}
LogIds == {1, 2}

NoReq == [group_id |-> "", teacher_id |-> "", lesson_id |-> None,
          entry_date |-> [day |-> None, secs |-> None], students |-> <<>>]
NoSess == [student |-> <<>>, status_rows |-> <<>>, new_status |-> <<>>,
           new_entries |-> <<>>]
NoResp == [op |-> "", raised |-> ""]

EmptyStatusMap == [l \in AllLessons |-> NoStatus]

-----------------------------------------------------------------------------
(* The application serving one request at a time *)

\* The students exist (create_student, app/api/students.py lines 156-175);
\* "s2" is a student whose initial ProgressRecord was never committed.
DB0 ==
    [student |-> [id \in StudentIds |->
                    NewStudent(IF id = "s9" THEN "B" ELSE "A",
                               CASE id = "s1" -> "KG" [] id = "s2" -> "G1"
                                 [] OTHER -> "G2")],
     lesson_status |-> <<>>,
     lesson_entry |-> <<>>,
     progress_record |-> <<NewProgressRecord("s1"), NewProgressRecord("s9")>>,
     unenrollment_log |-> <<>>,
     student_archive |-> <<>>]

InitDB(db) ==
    /\ student = db.student
    /\ lesson_status = db.lesson_status
    /\ lesson_entry = db.lesson_entry
    /\ progress_record = db.progress_record
    /\ unenrollment_log = db.unenrollment_log
    /\ student_archive = db.student_archive

Init ==
    /\ InitDB(DB0)
    /\ pc = "idle"
    /\ req = NoReq
    /\ sess = NoSess
    /\ loc = NewLocals
    /\ resp = NoResp
    /\ npairs = 0
    /\ limit = MaxPairs
    /\ before = DB0
    /\ status_map = EmptyStatusMap
    /\ sections_out = calculate_all_skill_sections(EmptyStatusMap)
    /\ nedits = 0
    /\ student_grade = NoGrade
    /\ progress_out = NoProgress
    /\ race = NoRace

SetDB(db) ==
    /\ student' = db.student
    /\ lesson_status' = db.lesson_status
    /\ lesson_entry' = db.lesson_entry
    /\ progress_record' = db.progress_record
    /\ unenrollment_log' = db.unenrollment_log
    /\ student_archive' = db.student_archive

\* create_lesson_entries, lines 55-91: validation of the request
SubmitBegin ==
    /\ pc = "idle"
    /\ npairs < limit
    /\ \E c \in RequestContexts :
        LET R == c @@ [students |-> <<>>]
            invalid == ValidateRequest(R, SiteId)
        IN  /\ req' = R
            /\ IF invalid # ""
               THEN /\ pc' = "done"
                    /\ resp' = Failure("HTTPException", 400, invalid)
                    /\ UNCHANGED <<sess, loc>>
               ELSE /\ pc' = "loop"
                    /\ sess' = NewSession(DB)
                    /\ loc' = NewLocals
                    /\ UNCHANGED resp
    /\ UNCHANGED <<dbvars, npairs, limit, before, calcvars, race>>

\* lines 93-163: the next entry of entry_data.students
SubmitEntry ==
    /\ pc = "loop"
    /\ npairs < limit
    /\ \E entry \in Entries :
        LET p == ProcessEntry(DB, sess, loc, req, entry)
        IN  /\ req' = [req EXCEPT !.students = Append(@, entry)]
            /\ sess' = p.sess
            /\ loc' = p.loc
    /\ npairs' = npairs + 1
    /\ UNCHANGED <<dbvars, pc, resp, limit, before, calcvars, race>>

\* line 165: db.commit() after the last entry
SubmitCommit ==
    /\ pc = "loop"
    /\ LET c == CommitSession(DB, sess)
       IN  IF c.raised = ""
           THEN /\ SetDB(c.db)
                /\ pc' = "recalc"
                /\ UNCHANGED resp
           ELSE /\ pc' = "done"
                /\ resp' = Failure(c.raised, 500, "")
                /\ UNCHANGED dbvars
    /\ sess' = NoSess
    /\ UNCHANGED <<req, loc, npairs, limit, before, calcvars, race>>

\* lines 169-173: calculate_student_progress of the next affected student
SubmitRecalc ==
    /\ pc = "recalc"
    /\ loc.students_to_recalculate # <<>>
    /\ SetDB(calculate_student_progress(DB, Head(loc.students_to_recalculate)))
    /\ loc' = [loc EXCEPT !.students_to_recalculate = Tail(@)]
    /\ UNCHANGED <<pc, req, sess, resp, npairs, limit, before, calcvars, race>>

\* lines 175-189: the last commit and the response
SubmitRespond ==
    /\ pc = "recalc"
    /\ loc.students_to_recalculate = <<>>
    /\ pc' = "done"
    /\ resp' = Response(loc)
    /\ UNCHANGED <<dbvars, req, sess, loc, npairs, limit, before, calcvars, race>>

\* a call of the service or of the recalculation route, in its own session
Call(op, r) ==
    /\ pc = "idle"
    /\ SetDB(r.db)
    /\ pc' = "done"
    /\ resp' = [op |-> op, raised |-> r.raised]
    /\ UNCHANGED <<req, sess, loc, npairs, limit, before, calcvars, race>>

\* the recalculation route; the response keeps the student_id of the path
Recalculate ==
    \E sid \in EntryStudents :
        LET r == recalculate_student_progress(DB, sid)
        IN  /\ pc = "idle"
            /\ SetDB(r.db)
            /\ pc' = "done"
            /\ resp' = [op |-> "recalculate_student_progress", raised |-> r.raised,
                        student_id |-> sid]
            /\ UNCHANGED <<req, sess, loc, npairs, limit, before, calcvars, race>>

Unenroll ==
    \E sid \in ServiceStudents :
        Call("unenroll_student", unenroll_student(DB, sid, "t1", None, <<>>))

Confirm ==
    \E id \in LogIds : Call("confirm_unenrollment", confirm_unenrollment(DB, id))

Resolve ==
    \E id \in LogIds, notes \in {<<>>, <<"returned">>} :
        Call("resolve_unenrollment", resolve_unenrollment(DB, id, notes))

Restore ==
    \E sid \in ServiceStudents :
        Call("restore_student", restore_student(DB, sid))

\* the response is sent: the application waits for the next request
Return ==
    /\ pc = "done"
    /\ pc' = "idle"
    /\ req' = NoReq
    /\ sess' = NoSess
    /\ loc' = NewLocals
    /\ resp' = NoResp
    /\ before' = DB
    /\ UNCHANGED <<dbvars, npairs, limit, calcvars, race>>

Next ==
    \/ SubmitBegin
    \/ SubmitEntry
    \/ SubmitCommit
    \/ SubmitRecalc
    \/ SubmitRespond
    \/ Recalculate
    \/ Unenroll
    \/ Confirm
    \/ Resolve
    \/ Restore
    \/ Return

Spec == Init /\ [][Next]_vars

-----------------------------------------------------------------------------
(* One request create_lesson_entries with up to MaxBatch entries, on a    *)
(* database that earlier requests have filled                              *)

SeedContext(g, t, day, secs, n) ==
    [group_id |-> g, teacher_id |-> t, lesson_id |-> LessonId(n),
     entry_date |-> [day |-> day, secs |-> secs]]

\* the requests that filled the database, served in this order
SeedRequests ==
    << SeedContext("g1", "t1", 1, 30600, 49) @@
          [students |-> <<[student_id |-> "s1", status |-> "Y"],
                          [student_id |-> "s2", status |-> "N"]>>],
       SeedContext("g2", "t2", 2, 52200, 25) @@
          [students |-> <<[student_id |-> "s1", status |-> "A"],
                          [student_id |-> "s2", status |-> "U"]>>] >>

\* the database after the first n of them
RECURSIVE SeedDB(_)
SeedDB(n) ==
    IF n = 0 THEN DB0
    ELSE create_lesson_entries(SeedDB(n - 1), SeedRequests[n]).db

InitBatch ==
    /\ \E n \in {0, Len(SeedRequests)} : InitDB(SeedDB(n)) /\ before = SeedDB(n)
    /\ pc = "idle"
    /\ req = NoReq
    /\ sess = NoSess
    /\ loc = NewLocals
    /\ resp = NoResp
    /\ npairs = 0
    /\ limit = MaxBatch
    /\ status_map = EmptyStatusMap
    /\ sections_out = calculate_all_skill_sections(EmptyStatusMap)
    /\ nedits = 0
    /\ student_grade = NoGrade
    /\ progress_out = NoProgress
    /\ race = NoRace

NextBatch ==
    \/ Recalculate
    \/ SubmitBegin
    \/ SubmitEntry
    \/ SubmitCommit
    \/ SubmitRecalc
    \/ SubmitRespond

SpecBatch == InitBatch /\ [][NextBatch]_vars

-----------------------------------------------------------------------------
(* The unenrollment service on databases whose unenrollment tables hold    *)
(* rows.  The rows are those that unenroll_student builds (lines 60-69 and *)
(* 146-156) for a student the ingestion has marked unenrolled; no call of  *)
(* the service commits one (see set_is_active), so they stand for rows     *)
(* written to the tables from outside the service.                         *)

UnenrollmentStatuses == {"pending", "confirmed", "resolved"}

\* the database with an UnenrollmentLog of this status for the student and
\* the StudentArchive linked to it; the student is active again when the
\* log is resolved
StoredUnenrollment(db, student_id, status, notes) ==
    LET log_id == Len(db.unenrollment_log) + 1
    IN  [db EXCEPT
            !.unenrollment_log =
                Append(@, [log_id |-> log_id, student_id |-> student_id,
                           reported_by_id |-> "t1", lesson_at_unenroll |-> None,
                           status |-> status, notes |-> notes]),
            !.student_archive =
                Append(@, archive_student_data(db, student_id, log_id).archive),
            !.student[student_id].status =
                IF status = "resolved" THEN "active" ELSE "unenrolled",
            !.student[student_id].unenrollment_date = 1]

\* a log of "s1" and a log of "s2"
ServiceDBs ==
    {StoredUnenrollment(StoredUnenrollment(DB0, "s1", st1, notes), "s2", st2, <<>>) :
        st1 \in UnenrollmentStatuses, st2 \in UnenrollmentStatuses,
        notes \in {<<>>, <<"moved away">>}}

InitService ==
    /\ \E db \in ServiceDBs : InitDB(db) /\ before = db
    /\ pc = "idle"
    /\ req = NoReq
    /\ sess = NoSess
    /\ loc = NewLocals
    /\ resp = NoResp
    /\ npairs = 0
    /\ limit = 0
    /\ status_map = EmptyStatusMap
    /\ sections_out = calculate_all_skill_sections(EmptyStatusMap)
    /\ nedits = 0
    /\ student_grade = NoGrade
    /\ progress_out = NoProgress
    /\ race = NoRace

NextService ==
    \/ Unenroll
    \/ Confirm
    \/ Resolve
    \/ Restore
    \/ Return

SpecService == InitService /\ [][NextService]_vars

-----------------------------------------------------------------------------
(* Batch recalculation: recalculate_progress, app/api/progress.py.  A     *)
(* request is [student_ids, recalculate_all]; order is the sequence in     *)
(* which the query returns the students; failing is the set of students    *)
(* for which calculate_student_progress raises (an exception of the        *)
(* database driver, raised by its first query).                            *)

\* lines 375-386: the ids of the students the request selects
SelectedStudents(db, request, site_id) ==
    IF request.recalculate_all
    THEN {id \in DOMAIN db.student :
             db.student[id].site_id = site_id /\ db.student[id].status = "active"}
    ELSE {id \in DOMAIN db.student :
             /\ \E i \in DOMAIN request.student_ids : request.student_ids[i] = id
             /\ db.student[id].site_id = site_id}

\* a loop that ends at the first student whose calculation raises
RECURSIVE RecalculateEachUntilError(_, _, _)
RecalculateEachUntilError(acc, students, failing) ==
    IF students = <<>> THEN acc
    ELSE LET sid == Head(students)
         IN  IF sid \in failing
             THEN [acc EXCEPT !.error_count = @ + 1,
                              !.errors = Append(@, [student_id |-> sid])]
             ELSE RecalculateEachUntilError(
                     [acc EXCEPT !.db = calculate_student_progress(@, sid),
                                 !.success_count = @ + 1],
                     Tail(students), failing)

\* lines 388-398: the loop; acc is [db, success_count, error_count, errors]
RECURSIVE RecalculateEach(_, _, _)
RecalculateEach(acc, students, failing) ==
    IF students = <<>> THEN acc
    ELSE LET sid == Head(students)
             next == IF sid \in failing
                     THEN [acc EXCEPT !.error_count = @ + 1,
                                      !.errors = Append(@, [student_id |-> sid])]
                     ELSE [acc EXCEPT !.db = calculate_student_progress(@, sid),
                                      !.success_count = @ + 1]
         IN  RecalculateEach(next, Tail(students), failing)

\* lines 351-404
recalculate_progress(db, request, order, failing) ==
    IF ~request.recalculate_all /\ request.student_ids = <<>>
    THEN [db |-> db,
          resp |-> [op |-> "recalculate_progress", raised |-> "HTTPException",
                    code |-> 400]]
    ELSE LET r == RecalculateEach([db |-> db, success_count |-> 0,
                                   error_count |-> 0, errors |-> <<>>],
                                  order, failing)
         IN  [db |-> r.db,
              resp |-> [op |-> "recalculate_progress", raised |-> "", code |-> 200,
                        students_processed |-> Len(order),
                        success_count |-> r.success_count,
                        error_count |-> r.error_count,
                        errors |-> r.errors]]

\* the sequences that list each element of the set once
Orders(set) ==
    {o \in [1..Cardinality(set) -> set] :
        \A i \in DOMAIN o, j \in DOMAIN o : i # j => o[i] # o[j]}

RecalculateRequests ==
    {[student_ids |-> ids, recalculate_all |-> all] :
        ids \in {<<>>, <<"s1">>, <<"s2", "s1">>, <<"s1", "s9">>, <<"s2", "s2">>},
        all \in BOOLEAN}

InitRecalc ==
    /\ \E n \in 0..Len(SeedRequests) : InitDB(SeedDB(n)) /\ before = SeedDB(n)
    /\ pc = "idle"
    /\ req = NoReq
    /\ sess = NoSess
    /\ loc = NewLocals
    /\ resp = NoResp
    /\ npairs = 0
    /\ limit = 0
    /\ status_map = EmptyStatusMap
    /\ sections_out = calculate_all_skill_sections(EmptyStatusMap)
    /\ nedits = 0
    /\ student_grade = NoGrade
    /\ progress_out = NoProgress
    /\ race = NoRace

\* one call of the route; req keeps the request and the order of the query
RecalculateProgress ==
    /\ pc = "idle"
    /\ \E request \in RecalculateRequests, failing \in SUBSET Students :
          \E order \in Orders(SelectedStudents(DB, request, SiteId)) :
             LET r == recalculate_progress(DB, request, order, failing)
             IN  /\ SetDB(r.db)
                 /\ resp' = r.resp
                 /\ req' = request @@ [order |-> order]
    /\ pc' = "done"
    /\ UNCHANGED <<sess, loc, npairs, limit, before, calcvars, race>>

NextRecalc ==
    \/ RecalculateProgress
    \/ Return

SpecRecalc == InitRecalc /\ [][NextRecalc]_vars

-----------------------------------------------------------------------------
(* The section percentages of the calculator on status maps: a map filled *)
(* uniformly over the review lessons and over the other lessons, then      *)
(* up to MaxEdits statuses recorded into it                                *)

FillStatuses == {"Y", "N", NoStatus}
RecordedStatuses == {"Y", "N", "A"}

FilledStatusMap(review_status, other_status) ==
    [l \in AllLessons |->
        IF l \in REVIEW_LESSONS THEN review_status ELSE other_status]

InitCalc ==
    /\ InitDB(DB0)
    /\ pc = "idle"
    /\ req = NoReq
    /\ sess = NoSess
    /\ loc = NewLocals
    /\ resp = NoResp
    /\ npairs = 0
    /\ limit = 0
    /\ before = DB0
    /\ \E r \in FillStatuses, o \in {"Y", NoStatus} :
          status_map = FilledStatusMap(r, o)
    /\ sections_out = calculate_all_skill_sections(status_map)
    /\ nedits = 0
    /\ student_grade = NoGrade
    /\ progress_out = NoProgress
    /\ race = NoRace

\* a status is recorded for a lesson and the sections are calculated again
CalcRecord ==
    /\ nedits < MaxEdits
    /\ \E l \in AllLessons, st \in RecordedStatuses :
          status_map' = [status_map EXCEPT ![l] = st]
    /\ sections_out' = calculate_all_skill_sections(status_map')
    /\ nedits' = nedits + 1
    /\ UNCHANGED <<dbvars, reqvars, student_grade, progress_out, race>>

NextCalc == CalcRecord

SpecCalc == InitCalc /\ [][NextCalc]_vars

-----------------------------------------------------------------------------
(* calculate_student_progress on a student of each grade: the ledger is a *)
(* uniform fill or the first-grade ledger below, with up to MaxEdits       *)
(* statuses recorded into it                                               *)

\* the grade names of the catalog, a student without grade, and a grade
\* whose name the catalog does not know
GradeLabels == GradeNames \cup {NoGrade, "G9"}

\* lessons 1-34 and 42-47 passed, 48-53 failed
FirstGradeLedger ==
    [l \in AllLessons |->
        IF l \in range(1, 35) \cup range(42, 48) THEN "Y"
        ELSE IF l \in range(48, 54) THEN "N" ELSE NoStatus]

GradeLedgers ==
    {FilledStatusMap(r, o) : r \in {"Y", "N", "A", NoStatus}, o \in FillStatuses}
        \cup {FirstGradeLedger}

\* lessons whose status is recorded anew
GradeEditLessons == {27, 35, 49, 50, 90, 120}

\* lines 122-133: the dict that calculate_student_progress returns
ProgressResult(m, grade_config) ==
    LET foundational == calculate_foundational(m)
        min_grade == calculate_min_grade(m, grade_config)
        full_grade == calculate_full_grade(m, grade_config)
        benchmark == calculate_benchmark(m, grade_config)
    IN  [current_lesson |-> calculate_current_lesson(m),
         foundational_count |-> foundational.count,
         foundational_pct |-> foundational.pct,
         min_grade_count |-> min_grade.count,
         min_grade_pct |-> min_grade.pct,
         full_grade_count |-> full_grade.count,
         full_grade_pct |-> full_grade.pct,
         benchmark_count |-> benchmark.count,
         benchmark_pct |-> benchmark.pct,
         skill_sections |-> calculate_all_skill_sections(m)]

\* lines 70-72: student.grade.name if student.grade else "KG"
GradeNameOf(g) == IF g = NoGrade THEN "KG" ELSE g

\* what calculate_student_progress returns and what it writes to the
\* ProgressRecord, for a student of grade g whose statuses are m
CalculatorOutput(g, m) ==
    [returned |-> ProgressResult(m, GradeConfig(GradeNameOf(g))),
     record |-> ProgressColumns(m, GradeConfig(GradeNameOf(g)))]

InitGrade ==
    /\ InitDB(DB0)
    /\ pc = "idle"
    /\ req = NoReq
    /\ sess = NoSess
    /\ loc = NewLocals
    /\ resp = NoResp
    /\ npairs = 0
    /\ limit = 0
    /\ before = DB0
    /\ student_grade \in GradeLabels
    /\ status_map \in GradeLedgers
    /\ sections_out = calculate_all_skill_sections(status_map)
    /\ progress_out = CalculatorOutput(student_grade, status_map)
    /\ race = NoRace
    /\ nedits = 0

\* a status is recorded for a lesson and the student's progress is
\* calculated again
GradeRecord ==
    /\ nedits < MaxEdits
    /\ \E l \in GradeEditLessons, st \in RecordedStatuses :
          status_map' = [status_map EXCEPT ![l] = st]
    /\ sections_out' = calculate_all_skill_sections(status_map')
    /\ progress_out' = CalculatorOutput(student_grade, status_map')
    /\ nedits' = nedits + 1
    /\ UNCHANGED <<dbvars, reqvars, student_grade, race>>

NextGrade == GradeRecord

SpecGrade == InitGrade /\ [][NextGrade]_vars

-----------------------------------------------------------------------------
(* What a request and the tables say, in the words of the properties *)

\* the request in progress is a create_lesson_entries that has been answered
Answered == pc = "done" /\ resp.op = "create_lesson_entries"

\* indices of the entries of request R that name student sid: all of them,
\* those with status "U", those with a status to record
EntriesOf(R, sid) ==
    {i \in DOMAIN R.students : R.students[i].student_id = sid}
UnenrollEntries(R, sid) ==
    {i \in EntriesOf(R, sid) : R.students[i].status = "U"}
StatusEntries(R, sid) == EntriesOf(R, sid) \ UnenrollEntries(R, sid)

\* the last entry of R with a status to record for sid
LastStatusEntry(R, sid) ==
    R.students[CHOOSE i \in StatusEntries(R, sid) :
                  \A j \in StatusEntries(R, sid) : j <= i]

\* indices of the current (non-initial) LessonStatus rows of (student, lesson)
CurrentRows(tbl, sid, lesson_id) ==
    {i \in DOMAIN tbl : /\ tbl[i].student_id = sid
                        /\ tbl[i].lesson_id = lesson_id
                        /\ tbl[i].is_initial_assessment = FALSE}

\* the LessonStatus rows of a student
LedgerOf(tbl, sid) == {tbl[i] : i \in {j \in DOMAIN tbl : tbl[j].student_id = sid}}

\* the highest lesson number whose current LessonStatus of the student is
\* "Y" (None when there is none)
HighestPassed(tbl, sid) ==
    LET passed == {LessonNumber(tbl[i].lesson_id) :
                     i \in {j \in DOMAIN tbl : /\ tbl[j].student_id = sid
                                               /\ tbl[j].is_initial_assessment = FALSE
                                               /\ tbl[j].status = "Y"}}
    IN  IF passed = {} THEN None
        ELSE CHOOSE n \in passed : \A k \in passed : k <= n

\* the rows a table has gained since it was tbl_before
AddedRows(tbl, tbl_before) == {i \in DOMAIN tbl : i > Len(tbl_before)}

-----------------------------------------------------------------------------
(* Status "U" in create_lesson_entries *)

\* C1: when create_lesson_entries has processed an entry (student, "U") for
\* a student of the caller's site and returns, exactly one new pending
\* UnenrollmentLog and exactly one new StudentArchive exist for that student
\* and the student is no longer active.
C1_UnenrollEntryArchives ==
    (Answered /\ resp.code = 201) =>
        \A sid \in Students :
            UnenrollEntries(req, sid) # {} =>
                /\ Cardinality({i \in AddedRows(unenrollment_log, before.unenrollment_log) :
                                   /\ unenrollment_log[i].student_id = sid
                                   /\ unenrollment_log[i].status = "pending"}) = 1
                /\ Cardinality({i \in AddedRows(student_archive, before.student_archive) :
                                   student_archive[i].student_id = sid}) = 1
                /\ ~is_active(student[sid])

\* C2: between the calls of create_lesson_entries, unenroll_student,
\* confirm_unenrollment, resolve_unenrollment and restore_student, a student
\* has status unenrolled only if a StudentArchive of that student exists, and
\* every StudentArchive belongs to the student of its UnenrollmentLog.
C2_UnenrolledIsArchived ==
    pc = "idle" =>
        /\ \A sid \in StudentIds :
              student[sid].status = "unenrolled" =>
                  \E i \in DOMAIN student_archive :
                      student_archive[i].student_id = sid
        /\ \A i \in DOMAIN student_archive :
              \E j \in DOMAIN unenrollment_log :
                  /\ unenrollment_log[j].log_id = student_archive[i].unenrollment_log_id
                  /\ unenrollment_log[j].student_id = student_archive[i].student_id

\* C3: an entry (student, "U") leaves the Ledger as it is: processing it
\* neither adds nor modifies a LessonStatus in the session, and sets the
\* student's status to unenrolled and the unenrollment date to the date of
\* the submission; when the request has returned, a student whose entries
\* all have "U" has the LessonStatus rows it had before, is unenrolled, and
\* has the submission's date as unenrollment date.
C3_UnenrollEntryLeavesLedger ==
    /\ pc = "loop" =>
          \A sid \in Students :
              LET p == ProcessEntry(DB, sess, loc, req,
                                    [student_id |-> sid, status |-> "U"])
              IN  /\ p.sess.status_rows = sess.status_rows
                  /\ p.sess.new_status = sess.new_status
                  /\ p.sess.student[sid].status = "unenrolled"
                  /\ p.sess.student[sid].unenrollment_date = DateOf(req.entry_date)
    /\ (Answered /\ resp.code = 201) =>
          \A sid \in Students :
              UnenrollEntries(req, sid) # {} =>
                  /\ student[sid].status = "unenrolled"
                  /\ student[sid].unenrollment_date = DateOf(req.entry_date)
                  /\ StatusEntries(req, sid) = {} =>
                        /\ LedgerOf(lesson_status, sid) = LedgerOf(before.lesson_status, sid)
                        /\ Cardinality(CurrentRows(lesson_status, sid, req.lesson_id))
                             = Cardinality(CurrentRows(before.lesson_status, sid,
                                                       req.lesson_id))

\* a request has returned in which a student who had a current LessonStatus
\* of the lesson was given "U" only
C3_Witness ==
    /\ Answered /\ resp.code = 201
    /\ \E sid \in Students :
          /\ UnenrollEntries(req, sid) # {}
          /\ StatusEntries(req, sid) = {}
          /\ CurrentRows(before.lesson_status, sid, req.lesson_id) # {}

-----------------------------------------------------------------------------
(* Student.current_lesson *)

\* C4 as the specification states it: in no step does a student's
\* current_lesson decrease or go from set to unset.
C4_NeverDecreases ==
    [][\A sid \in StudentIds :
          student'[sid].current_lesson >= student[sid].current_lesson]_vars

\* C4: a student's current_lesson decreases or goes from set to unset only
\* when the current LessonStatus of lesson current_lesson has been
\* overwritten with "N" or "A"; it then becomes the highest lesson number
\* whose current LessonStatus is "Y" (unset when there is none).
C4_LowerOnlyAfterOverwrite ==
    [][\A sid \in StudentIds :
          student'[sid].current_lesson < student[sid].current_lesson =>
              /\ student'[sid].current_lesson = HighestPassed(lesson_status', sid)
              /\ \E i \in CurrentRows(lesson_status', sid,
                                      LessonId(student[sid].current_lesson)) :
                    lesson_status'[i].status \in {"N", "A"}]_vars

\* a LessonEntry records a "Y" of a student for a lesson above the
\* student's current_lesson
C4_Witness ==
    /\ pc = "idle"
    /\ \E i \in DOMAIN lesson_entry :
          /\ lesson_entry[i].status = "Y"
          /\ lesson_entry[i].student_id \in Students
          /\ student[lesson_entry[i].student_id].current_lesson
                < LessonNumber(lesson_entry[i].lesson_id)

\* C5 as the specification states it: a returned create_lesson_entries with
\* "Y" for a lesson below the student's current_lesson leaves current_lesson
\* as it was, and current_lesson differs from its value before the request
\* only if the request has "Y" for the student and its lesson number is
\* strictly greater than that value.
C5_ChangesOnlyOnHigherPass ==
    Answered =>
        \A sid \in Students :
            LET old == before.student[sid].current_lesson
                new == student[sid].current_lesson
                number == LessonNumber(req.lesson_id)
                passes == {i \in StatusEntries(req, sid) : req.students[i].status = "Y"}
            IN  /\ (old # None /\ passes # {} /\ number < old) => new = old
                /\ new # old => (passes # {} /\ number > old)

\* C5: a returned create_lesson_entries with "Y" for a lesson below the
\* student's current_lesson leaves current_lesson as it was; current_lesson
\* differs from its value before the request only if the request has "Y" for
\* the student and a greater lesson number, which is the new value, or has
\* "N" or "A" for the student and the lesson current_lesson was, and the new
\* value is the highest lesson number still "Y" in the Ledger.
C5_ChangesOnPassOrOverwrite ==
    Answered =>
        \A sid \in Students :
            LET old == before.student[sid].current_lesson
                new == student[sid].current_lesson
                number == LessonNumber(req.lesson_id)
                passes == {i \in StatusEntries(req, sid) : req.students[i].status = "Y"}
                others == StatusEntries(req, sid) \ passes
            IN  /\ (old # None /\ passes # {} /\ number < old) => new = old
                /\ new # old =>
                      \/ passes # {} /\ number > old /\ new = number
                      \/ /\ others # {} /\ number = old /\ new < old
                         /\ new = HighestPassed(lesson_status, sid)

\* a request with "Y" for a lesson below the student's current_lesson has
\* returned
C5_Witness ==
    /\ Answered /\ resp.code = 201
    /\ \E sid \in Students :
          /\ before.student[sid].current_lesson > LessonNumber(req.lesson_id)
          /\ \E i \in StatusEntries(req, sid) : req.students[i].status = "Y"
          /\ student[sid].current_lesson = before.student[sid].current_lesson

-----------------------------------------------------------------------------
(* The Ledger after create_lesson_entries *)

\* C6: when a create_lesson_entries with a valid group, teacher and lesson
\* has been answered, the Ledger holds at most one current LessonStatus per
\* (student, lesson), and for every student of the site that the batch gives
\* a status to record, once or several times, exactly one current
\* LessonStatus of (student, lesson) exists and it carries the status of the
\* last such entry and the date, group and teacher of the request.
C6_LedgerHoldsLastEntry ==
    (Answered /\ resp.code # 400) =>
        /\ \A sid \in StudentIds, lesson_id \in LessonIds :
              Cardinality(CurrentRows(lesson_status, sid, lesson_id)) <= 1
        /\ \A sid \in Students :
              StatusEntries(req, sid) # {} =>
                  /\ Cardinality(CurrentRows(lesson_status, sid, req.lesson_id)) = 1
                  /\ \A i \in CurrentRows(lesson_status, sid, req.lesson_id) :
                        /\ lesson_status[i].status = LastStatusEntry(req, sid).status
                        /\ lesson_status[i].completed_date = DateOf(req.entry_date)
                        /\ lesson_status[i].group_id = req.group_id
                        /\ lesson_status[i].teacher_id = req.teacher_id

\* the derived state: the Ledger, every student's current_lesson and the
\* ProgressRecords
Derived(db) ==
    [lesson_status |-> db.lesson_status,
     current_lesson |-> [sid \in StudentIds |-> db.student[sid].current_lesson],
     progress_record |-> db.progress_record]

\* the steps of an answered request have done what the handler as a whole
\* does on the database the request found
StepsAreTheHandler ==
    Answered => create_lesson_entries(before, req) = [db |-> DB, resp |-> resp]

\* C7: when a create_lesson_entries has been answered, submitting the same
\* request again leaves the Ledger, every student's current_lesson and
\* every ProgressRecord as the first run left them.
C7_ResubmissionIdempotent ==
    Answered => Derived(create_lesson_entries(DB, req).db) = Derived(DB)

\* a request of several entries that created a LessonStatus has been
\* answered, and the same request again updates it
C7_Witness ==
    /\ Answered /\ resp.code = 201
    /\ Len(req.students) > 1
    /\ resp.created > 0
    /\ create_lesson_entries(DB, req).resp.updated > 0
    /\ create_lesson_entries(DB, req).resp.created = 0

-----------------------------------------------------------------------------
(* Errors of create_lesson_entries *)

\* the group, the teacher or the lesson of request R does not exist, or the
\* group or the teacher belongs to another site
InvalidReference(R) ==
    \/ R.group_id \notin {g \in DOMAIN Groups : Groups[g].site_id = SiteId}
    \/ R.teacher_id \notin {t \in DOMAIN Teachers : Teachers[t].site_id = SiteId}
    \/ R.lesson_id \notin LessonIds

\* the lists of at most two entries
Batches ==
    {<<>>} \cup {<<e>> : e \in Entries} \cup {<<e, f>> : e \in Entries, f \in Entries}

\* C8: a create_lesson_entries whose group, teacher or lesson does not
\* exist, or whose group or teacher belongs to another site, is answered
\* with an error and the database is what it was before; the same holds of
\* the handler for that group, teacher and lesson with any list of entries.
C8_InvalidReferenceRejected ==
    (Answered /\ InvalidReference(req)) =>
        /\ resp.code = 400
        /\ DB = before
        /\ \A entries \in Batches :
              LET r == create_lesson_entries(before, [req EXCEPT !.students = entries])
              IN  r.resp.code = 400 /\ r.db = before

\* a request with an invalid reference has been answered while the Ledger
\* holds records
C8_Witness ==
    /\ Answered /\ InvalidReference(req)
    /\ lesson_status # <<>>

\* C9: when a create_lesson_entries with a valid group, teacher and lesson
\* and a batch with entries of unknown or other-site students has been
\* answered, the response is a success with one error per such entry, the
\* students of other sites are as before and have no LessonStatus, and every
\* student of the site that the batch gives a status to record has a current
\* LessonStatus of the lesson with the request's date, group and teacher and
\* has been recalculated.
C9_BadEntrySkipped ==
    (Answered /\ resp.code # 400) =>
        LET bad == {i \in DOMAIN req.students :
                       req.students[i].student_id \notin Students}
        IN  bad # {} =>
              /\ resp.code = 201
              /\ Len(resp.errors) = Cardinality(bad)
              /\ \A sid \in StudentIds \ Students :
                    /\ student[sid] = before.student[sid]
                    /\ LedgerOf(lesson_status, sid) = {}
              /\ \A sid \in Students :
                    StatusEntries(req, sid) # {} =>
                        /\ \E i \in CurrentRows(lesson_status, sid, req.lesson_id) :
                              /\ lesson_status[i].completed_date = DateOf(req.entry_date)
                              /\ lesson_status[i].group_id = req.group_id
                              /\ lesson_status[i].teacher_id = req.teacher_id
                        /\ student[sid].current_lesson = HighestPassed(lesson_status, sid)
                        /\ \E i \in DOMAIN progress_record :
                              progress_record[i].student_id = sid

-----------------------------------------------------------------------------
(* Section percentages *)

\* C10: for each of the 17 sections, if the section has review lessons, at
\* least one of them has a recorded status and every recorded one has "Y",
\* the section's percentage is exactly 100.
C10_ReviewOverride ==
    \A id \in SectionIds :
        LET review == SKILL_SECTIONS[id] \cap REVIEW_LESSONS
            recorded == {l \in review : status_map[l] \in {"Y", "N", "A"}}
        IN  (review # {} /\ recorded # {} /\ \A l \in recorded : status_map[l] = "Y")
                => sections_out[id] = [num |-> 100, den |-> 1]

\* a status has been recorded and some section has a review lesson recorded
\* "Y", a review lesson not recorded, none recorded "N" or "A", and a
\* lesson that is no review lesson and has no "Y"
C10_Witness ==
    /\ nedits > 0
    /\ \E id \in SectionIds :
          LET review == SKILL_SECTIONS[id] \cap REVIEW_LESSONS
          IN  /\ \E l \in review : status_map[l] = "Y"
              /\ \E l \in review : status_map[l] = NoStatus
              /\ \A l \in review : status_map[l] \in {"Y", NoStatus}
              /\ \E l \in SKILL_SECTIONS[id] \ REVIEW_LESSONS : status_map[l] # "Y"


\* C11: for each of the 17 sections, when the review override does not
\* apply (the section has no review lesson, or none of them has a recorded
\* status, or one of them is recorded "N" or "A"), the section's percentage
\* is the number of its non-review lessons with "Y" over the number of its
\* non-review lessons, times 100, and 0 when it has no non-review lesson;
\* the review lessons count in neither.
C11_NonReviewPercentage ==
    \A id \in SectionIds :
        LET review == SKILL_SECTIONS[id] \cap REVIEW_LESSONS
            others == SKILL_SECTIONS[id] \ REVIEW_LESSONS
            recorded == {l \in review : status_map[l] \in {"Y", "N", "A"}}
            passed == Cardinality({l \in others : status_map[l] = "Y"})
        IN  (review = {} \/ recorded = {} \/ \E l \in recorded : status_map[l] \in {"N", "A"})
                => sections_out[id] =
                      IF others = {} THEN [num |-> 0, den |-> 1]
                      ELSE Frac(passed * 100, Cardinality(others))

\* a status has been recorded and some section has a review lesson recorded
\* "N" or "A", a non-review lesson with "Y" and a non-review lesson without
C11_Witness ==
    /\ nedits > 0
    /\ \E id \in SectionIds :
          LET review == SKILL_SECTIONS[id] \cap REVIEW_LESSONS
              others == SKILL_SECTIONS[id] \ REVIEW_LESSONS
          IN  /\ \E l \in review : status_map[l] \in {"N", "A"}
              /\ \E l \in others : status_map[l] = "Y"
              /\ \E l \in others : status_map[l] # "Y"

-----------------------------------------------------------------------------
(* Grade metrics *)

\* the lessons of a grade's min_lessons that are no review lessons
NonReviewMinLessons(g) == GradeConfig(GradeNameOf(g)).min_lessons \ REVIEW_LESSONS

\* C12: for every grade and ledger, the benchmark count and the min-grade
\* count are both the number of non-review min_lessons with "Y"; the
\* benchmark percentage divides it by the grade's benchmark_denominator and
\* the min-grade percentage by the number of non-review min_lessons; for
\* grade G1 with lessons 1-34 and 42-47 "Y" and 48-53 "N" the count is 40,
\* the benchmark percentage 40/44 x 100, written to the record as 90.91.
C12_BenchmarkSharesMinGradeCount ==
    LET count == Cardinality({l \in NonReviewMinLessons(student_grade) :
                                 status_map[l] = "Y"})
        denominator == GradeConfig(GradeNameOf(student_grade)).benchmark_denominator
        out == progress_out.returned
        rec == progress_out.record
    IN  /\ out.benchmark_count = count /\ out.min_grade_count = count
        /\ rec.benchmark_count = count /\ rec.min_grade_count = count
        /\ out.benchmark_pct = Frac(count * 100, denominator)
        /\ out.min_grade_pct =
              Frac(count * 100, Cardinality(NonReviewMinLessons(student_grade)))
        /\ (student_grade = "G1" /\ status_map = FirstGradeLedger)
              => /\ count = 40
                 /\ out.benchmark_pct = Frac(40 * 100, 44)
                 /\ rec.benchmark_pct = 9091

\* the first-grade ledger after a status was recorded into it again
C12_Witness ==
    /\ nedits > 0
    /\ student_grade = "G1"
    /\ status_map = FirstGradeLedger
    /\ progress_out.record.benchmark_count = 40

\* the min-grade and benchmark counts and percentages of a calculator output
MinGradeAndBenchmark(out) ==
    [min_grade_count |-> out.min_grade_count,
     min_grade_pct |-> out.min_grade_pct,
     benchmark_count |-> out.benchmark_count,
     benchmark_pct |-> out.benchmark_pct]

\* the ledger with the status of every review lesson removed
WithoutReviewStatuses(m) ==
    [l \in AllLessons |-> IF l \in REVIEW_LESSONS THEN NoStatus ELSE m[l]]

\* C13: for every grade, the min-grade count and percentage and the
\* benchmark count and percentage of a ledger are those of the ledger that
\* has the same statuses on the non-review lessons and none on the review
\* lessons, returned and written; so two ledgers that differ only in the
\* statuses of review lessons yield the same four values.
C13_ReviewStatusesIgnored ==
    LET plain == CalculatorOutput(student_grade, WithoutReviewStatuses(status_map))
    IN  /\ MinGradeAndBenchmark(progress_out.returned)
              = MinGradeAndBenchmark(plain.returned)
        /\ MinGradeAndBenchmark(progress_out.record)
              = MinGradeAndBenchmark(plain.record)

\* a status has been recorded, and the review lessons of the grade's
\* min_lessons include one recorded "Y" and one recorded "N" or "A",
\* next to a non-review lesson with "Y"
C13_Witness ==
    LET min_lessons == GradeConfig(GradeNameOf(student_grade)).min_lessons
    IN  /\ nedits > 0
        /\ \E l \in min_lessons \cap REVIEW_LESSONS : status_map[l] = "Y"
        /\ \E l \in min_lessons \cap REVIEW_LESSONS : status_map[l] \in {"N", "A"}
        /\ \E l \in min_lessons \ REVIEW_LESSONS : status_map[l] = "Y"

\* C14: for every grade name of the catalog, a student without grade and a
\* grade name the catalog does not know, the calculator on a ledger without
\* any status returns 0 for the foundational, min-grade, full-grade and
\* benchmark counts and percentages, writes 0.00 for each percentage, and
\* returns no current lesson; for a grade without current-year lessons the
\* full-grade count and percentage are 0 as well.
C14_EmptyLedgerAllZero ==
    (\A l \in AllLessons : status_map[l] = NoStatus) =>
        LET out == progress_out.returned
            rec == progress_out.record
            zero == [num |-> 0, den |-> 1]
        IN  /\ out.current_lesson = None
            /\ out.foundational_count = 0 /\ out.foundational_pct = zero
            /\ out.min_grade_count = 0 /\ out.min_grade_pct = zero
            /\ out.full_grade_count = 0 /\ out.full_grade_pct = zero
            /\ out.benchmark_count = 0 /\ out.benchmark_pct = zero
            /\ rec.foundational_count = 0 /\ rec.foundational_pct = 0
            /\ rec.min_grade_count = 0 /\ rec.min_grade_pct = 0
            /\ rec.full_grade_count = 0 /\ rec.full_grade_pct = 0
            /\ rec.benchmark_count = 0 /\ rec.benchmark_pct = 0

\* the calculator has run on the empty ledger of a student whose grade
\* has no current-year lessons
C14_Witness ==
    /\ status_map = EmptyStatusMap
    /\ ~GradeConfig(GradeNameOf(student_grade)).has_current_year
    /\ student_grade \notin GradeNames
    /\ progress_out # NoProgress
    /\ progress_out.returned.full_grade_count = 0

\* a float between 0 and 100
InRange(f) == f.den > 0 /\ 0 <= f.num /\ f.num <= 100 * f.den

\* a Decimal between 0.00 and 100.00, in hundredths
InRangeHundredths(h) == 0 <= h /\ h <= 100 * 100

\* C15: for every grade and ledger, the foundational, min-grade, full-grade
\* and benchmark percentages, as returned and as written to the
\* ProgressRecord, and each of the 17 section percentages written lie
\* between 0 and 100; the benchmark count does not exceed the grade's
\* benchmark_denominator.
C15_PercentagesInRange ==
    LET out == progress_out.returned
        rec == progress_out.record
    IN  /\ InRange(out.foundational_pct) /\ InRangeHundredths(rec.foundational_pct)
        /\ InRange(out.min_grade_pct) /\ InRangeHundredths(rec.min_grade_pct)
        /\ InRange(out.full_grade_pct) /\ InRangeHundredths(rec.full_grade_pct)
        /\ InRange(out.benchmark_pct) /\ InRangeHundredths(rec.benchmark_pct)
        /\ DOMAIN rec.skill_sections = SectionIds
        /\ \A id \in SectionIds : InRange(rec.skill_sections[id])
        /\ rec.benchmark_count
              <= GradeConfig(GradeNameOf(student_grade)).benchmark_denominator

\* a status has been recorded and every lesson is passed, for a grade whose
\* benchmark_denominator exceeds the number of its non-review min_lessons
C15_Witness ==
    /\ nedits > 0
    /\ \A l \in AllLessons : status_map[l] = "Y"
    /\ Cardinality(NonReviewMinLessons(student_grade))
          < GradeConfig(GradeNameOf(student_grade)).benchmark_denominator
    /\ progress_out.record.min_grade_pct = 100 * 100
    /\ progress_out.record.benchmark_pct < 100 * 100

-----------------------------------------------------------------------------
(* Unenrollment records and archives *)

LogsBefore(statuses) ==
    {i \in DOMAIN before.unenrollment_log :
        before.unenrollment_log[i].status \in statuses}

ProperPrefix(a, b) == Len(a) < Len(b) /\ SubSeq(b, 1, Len(a)) = a

\* C18: when restore_student has been called for a student of the table, the
\* call has completed without raising and, for some student: the student is
\* active, each UnenrollmentLog of the student that was pending is resolved
\* with notes that extend the notes it had, and every other UnenrollmentLog
\* (confirmed or resolved ones of the student, and those of other students)
\* is what it was.
C18_RestoreResolvesPending ==
    (pc = "done" /\ resp.op = "restore_student" /\ resp.raised # "ValueError") =>
        /\ resp.raised = ""
        /\ DOMAIN unenrollment_log = DOMAIN before.unenrollment_log
        /\ \E sid \in Students :
              /\ is_active(student[sid])
              /\ \A i \in DOMAIN unenrollment_log :
                    LET old == before.unenrollment_log[i]
                        new == unenrollment_log[i]
                    IN  IF old.student_id = sid /\ old.status = "pending"
                        THEN /\ new = [old EXCEPT !.status = "resolved",
                                                  !.notes = new.notes]
                             /\ ProperPrefix(old.notes, new.notes)
                        ELSE new = old

\* C19: when unenroll_student has been called for a student of the table
\* whose snapshot can be taken, the call has completed without raising and
\* has added exactly one UnenrollmentLog, pending, and exactly one
\* StudentArchive, linked to that log and of the same student; and whatever
\* the service call, the StudentArchive rows that existed are what they were.
C19_UnenrollAddsOneArchive ==
    (pc = "done" /\ resp.op \in {"unenroll_student", "confirm_unenrollment",
                                 "resolve_unenrollment", "restore_student"}) =>
        /\ Len(student_archive) >= Len(before.student_archive)
        /\ SubSeq(student_archive, 1, Len(before.student_archive))
              = before.student_archive
        /\ (/\ resp.op = "unenroll_student"
            /\ resp.raised # "ValueError"
            /\ before.lesson_status = <<>>) =>
              /\ resp.raised = ""
              /\ Len(unenrollment_log) = Len(before.unenrollment_log) + 1
              /\ Len(student_archive) = Len(before.student_archive) + 1
              /\ unenrollment_log[Len(unenrollment_log)].status = "pending"
              /\ student_archive[Len(student_archive)].unenrollment_log_id
                    = unenrollment_log[Len(unenrollment_log)].log_id
              /\ student_archive[Len(student_archive)].student_id
                    = unenrollment_log[Len(unenrollment_log)].student_id

\* the students of the table whose snapshot cannot be taken: those with a
\* LessonStatus row
ArchiveFails(db) ==
    {sid \in Students :
        archive_student_data(db, sid, Len(db.unenrollment_log) + 1).raised # ""}

\* C20: when unenroll_student has been called and the snapshot of every
\* student of the table fails, the database is what it was before the call:
\* every student has the status it had, and no UnenrollmentLog and no
\* StudentArchive has been added.
C20_FailedArchiveLeavesNoTrace ==
    (/\ pc = "done" /\ resp.op = "unenroll_student"
     /\ ArchiveFails(before) = Students) =>
        /\ resp.raised # ""
        /\ DB = before
        /\ \A sid \in Students : student[sid].status = before.student[sid].status
        /\ unenrollment_log = before.unenrollment_log
        /\ student_archive = before.student_archive

\* unenroll_student has been called for an active student of the table
\* when the snapshot of every student fails
C20_Witness ==
    /\ pc = "done" /\ resp.op = "unenroll_student"
    /\ resp.raised = "AttributeError"
    /\ ArchiveFails(before) = Students
    /\ \E sid \in Students : is_active(before.student[sid])

-----------------------------------------------------------------------------
(* Recalculation *)

\* recalculate_progress has answered with its counts
Recalculated == pc = "done" /\ resp.op = "recalculate_progress" /\ resp.code = 200

\* the students named in the error list of the response
FailedStudents == {resp.errors[i].student_id : i \in DOMAIN resp.errors}

\* the student has a ufli_map ProgressRecord and calculating the student's
\* progress again changes nothing in the database
ProgressIsCurrent(db, sid) ==
    /\ \E i \in DOMAIN db.progress_record :
          /\ db.progress_record[i].student_id = sid
          /\ db.progress_record[i].record_type = "ufli_map"
    /\ calculate_student_progress(db, sid) = db

\* C21: when recalculate_progress has answered, students_processed is the
\* number of selected students and equals success_count + error_count; the
\* error list has one entry for each student whose calculation raised and
\* error_count is its length; and every selected student that is not in the
\* error list, also one that comes after a failed one, has been calculated.
C21_RecalculateAllContinues ==
    Recalculated =>
        /\ resp.students_processed = Len(req.order)
        /\ resp.students_processed = resp.success_count + resp.error_count
        /\ resp.error_count = Len(resp.errors)
        /\ Cardinality(FailedStudents) = Len(resp.errors)
        /\ \A i \in DOMAIN req.order :
              req.order[i] \notin FailedStudents => ProgressIsCurrent(DB, req.order[i])

\* the calculation of the first of two students raised and the second
\* student got the ProgressRecord it did not have
C21_Witness ==
    /\ Recalculated
    /\ Len(req.order) = 2
    /\ FailedStudents = {req.order[1]}
    /\ resp.success_count = 1 /\ resp.error_count = 1
    /\ ~ProgressIsCurrent(before, req.order[2])
    /\ ProgressIsCurrent(DB, req.order[2])

\* the students whose progress the answered call has calculated: those of
\* the caller's site with an entry of status Y, N or A in a request answered
\* 201, or the student of an answered recalculation
Touched ==
    IF Answered /\ resp.code = 201
    THEN {sid \in Students : StatusEntries(req, sid) # {}}
    ELSE IF /\ pc = "done" /\ resp.op = "recalculate_student_progress"
            /\ resp.raised = ""
         THEN {resp.student_id}
         ELSE {}

\* the ufli_map ProgressRecords of a student, by index
ProgressRecordsOf(tbl, sid) ==
    {i \in DOMAIN tbl : tbl[i].student_id = sid /\ tbl[i].record_type = "ufli_map"}

\* C22: when create_lesson_entries or the recalculation route has answered,
\* each student it calculated has exactly one ufli_map ProgressRecord, at the
\* place where the student's record was if there was one, and its counts,
\* percentages and section percentages are what the calculator computes from
\* the student's current LessonStatus rows and grade.
C22_RecordIsDerived ==
    \A sid \in Touched :
        LET now == ProgressRecordsOf(progress_record, sid)
            was == ProgressRecordsOf(before.progress_record, sid)
        IN  /\ Cardinality(now) = 1
            /\ was # {} => now = was
            /\ \A i \in now :
                  progress_record[i] =
                      [student_id |-> sid, record_type |-> "ufli_map"] @@
                      ProgressColumns(StudentStatuses(DB, sid, FALSE),
                                      GradeConfig(student[sid].grade))

\* a request has been answered that recorded "Y" for a student whose
\* ProgressRecord existed, and the record now shows the passed lesson
C22_Witness ==
    /\ Answered /\ resp.code = 201
    /\ \E sid \in Touched :
          /\ ProgressRecordsOf(before.progress_record, sid) # {}
          /\ \E i \in ProgressRecordsOf(progress_record, sid) :
                /\ progress_record[i] # before.progress_record[i]
                /\ progress_record[i].foundational_count > 0

\* C23: when create_lesson_entries or the recalculation route has answered,
\* the current_lesson of each student it calculated is the highest lesson
\* number whose current LessonStatus of the student is "Y", and unset when
\* the student has none, whatever the ingestion loop had left there.
C23_CurrentLessonIsHighestPassed ==
    \A sid \in Touched :
        student[sid].current_lesson = HighestPassed(lesson_status, sid)

\* a request has been answered that overwrote the "Y" of the lesson a
\* student's current_lesson pointed to: the ingestion loop left the pointer
\* and the calculation has moved it
C23_Witness ==
    /\ Answered /\ resp.code = 201
    /\ \E sid \in Touched :
          /\ before.student[sid].current_lesson = LessonNumber(req.lesson_id)
          /\ LastStatusEntry(req, sid).status # "Y"
          /\ student[sid].current_lesson # before.student[sid].current_lesson

-----------------------------------------------------------------------------
(* Order of the steps of create_lesson_entries *)

\* the entry names a student of the caller's site with a status to record
IsRecorded(entry) == entry.student_id \in Students /\ entry.status # "U"

\* the students of the recorded entries of request R, in the order of R
RecordedStudents(R) ==
    LET sel == SelectSeq(R.students, IsRecorded)
    IN  [i \in 1..Len(sel) |-> sel[i].student_id]

\* sequence s is the end of sequence t
IsSuffix(s, t) ==
    Len(s) <= Len(t) /\ SubSeq(t, Len(t) - Len(s) + 1, Len(t)) = s

\* C24: within a create_lesson_entries request, as long as entries are
\* processed no progress is calculated (the ProgressRecords are those of
\* the arrival of the request); when the calculation runs, the LessonStatus
\* of every recorded entry is committed with the status of the student's
\* last entry and nothing is pending in the session; the students still to
\* calculate are the end of the list of students of the entries that named
\* a student of the site with a status other than "U", in the order of the
\* request, and none is left when the request is answered 201.
C24_AggregationAfterCommit ==
    /\ pc = "loop" => progress_record = before.progress_record
    /\ pc = "recalc" =>
          /\ sess = NoSess
          /\ IsSuffix(loc.students_to_recalculate, RecordedStudents(req))
          /\ \A sid \in Students :
                StatusEntries(req, sid) # {} =>
                    \E i \in CurrentRows(lesson_status, sid, req.lesson_id) :
                        lesson_status[i].status = LastStatusEntry(req, sid).status
    /\ (Answered /\ resp.code = 201) => loc.students_to_recalculate = <<>>

\* the calculation is about to run for the one recorded student of a
\* request that also named an unknown student and unenrolled a student
C24_Witness ==
    /\ pc = "recalc"
    /\ Len(loc.students_to_recalculate) = 1
    /\ RecordedStudents(req) = loc.students_to_recalculate
    /\ \E i \in DOMAIN req.students : req.students[i].student_id \notin Students
    /\ \E i \in DOMAIN req.students :
          /\ req.students[i].student_id \in Students
          /\ req.students[i].status = "U"

-----------------------------------------------------------------------------
(* Last activity *)

\* C27: when a request has been answered 201, every student of the caller's
\* site that an entry of the request names, whatever the status of the entry
\* (Y, N, A or U), has the date of the submission as last_activity_date.
C27_LastActivityIsSubmissionDate ==
    (Answered /\ resp.code = 201) =>
        \A sid \in Students :
            EntriesOf(req, sid) # {} =>
                student[sid].last_activity_date = DateOf(req.entry_date)


-----------------------------------------------------------------------------
(* Two create_lesson_entries requests served at the same time, each by its *)
(* own process and its own Session, on one database.  The engine of        *)
(* app/database.py sets no isolation level: a query reads what is          *)
(* committed when it runs, and a commit writes the columns the Session     *)
(* changed since it loaded them and inserts its new rows.  Each request    *)
(* has one entry, for the same student, group, teacher and date.           *)

Procs == {1, 2}
RaceStudent == "s1"
RaceStatuses == {"Y", "N", "A"}

RaceRequest(n, status) ==
    SeedContext("g1", "t1", 1, 30600, n) @@
        [students |-> <<[student_id |-> RaceStudent, status |-> status]>>]

\* a process that has not read its request yet
NewProc(R) ==
    [pc |-> "idle", req |-> R, loaded |-> DB0, pending |-> DB0,
     loc |-> NewLocals, resp |-> NoResp, rank |-> 0]

\* the UPDATE of a loaded row: the columns whose value differs from the
\* loaded one are written, the other columns stay as the database has them
FlushRow(cur, loaded, new) ==
    [c \in DOMAIN cur |-> IF new[c] # loaded[c] THEN new[c] ELSE cur[c]]

\* a flush that writes the table back as the Session holds it
FlushRowsWhole(cur, loaded, new) == new

\* the flush of the rows of a table kept as a sequence: UPDATE of the rows
\* that were loaded, INSERT of those the Session added
FlushRows(cur, loaded, new) ==
    [i \in 1..Len(cur) |->
        IF i <= Len(loaded) THEN FlushRow(cur[i], loaded[i], new[i]) ELSE cur[i]]
    \o SubSeq(new, Len(loaded) + 1, Len(new))

\* db.commit() of a Session that loaded `loaded` and holds `new`, on the
\* database `cur`.  An INSERT whose key another transaction has committed
\* violates uq_student_lesson_assessment: IntegrityError, nothing written.
FlushSession(cur, loaded, new) ==
    LET tbl == FlushRows(cur.lesson_status, loaded.lesson_status, new.lesson_status)
    IN  IF UniqueStatusKeys(tbl)
        THEN [raised |-> "",
              db |-> [cur EXCEPT
                        !.student =
                            [sid \in DOMAIN cur.student |->
                                FlushRow(cur.student[sid], loaded.student[sid],
                                         new.student[sid])],
                        !.lesson_status = tbl,
                        !.lesson_entry =
                            @ \o SubSeq(new.lesson_entry, Len(loaded.lesson_entry) + 1,
                                        Len(new.lesson_entry)),
                        !.progress_record =
                            FlushRows(cur.progress_record, loaded.progress_record,
                                      new.progress_record)]]
        ELSE [raised |-> "IntegrityError", db |-> cur]

\* lines 55-163: the request is valid; the Session loads the student and
\* the LessonStatus of the pair and holds the entry's changes
RaceSubmitEntry(p) ==
    /\ race[p].pc = "idle"
    /\ ValidateRequest(race[p].req, SiteId) = ""
    /\ LET e == ProcessEntry(DB, NewSession(DB), NewLocals, race[p].req,
                             race[p].req.students[1])
       IN  race' = [race EXCEPT
                      ![p].pc = "loop",
                      ![p].loaded = DB,
                      ![p].pending =
                          [DB EXCEPT !.student = e.sess.student,
                                     !.lesson_status =
                                         e.sess.status_rows \o e.sess.new_status,
                                     !.lesson_entry = @ \o e.sess.new_entries],
                      ![p].loc = e.loc]
    /\ UNCHANGED <<dbvars, reqvars, calcvars>>

\* line 165: db.commit(); an IntegrityError leaves the handler (HTTP 500)
RaceSubmitCommit(p) ==
    /\ race[p].pc = "loop"
    /\ LET c == FlushSession(DB, race[p].loaded, race[p].pending)
       IN  IF c.raised = ""
           THEN /\ SetDB(c.db)
                /\ race' = [race EXCEPT
                              ![p].pc = "recalc",
                              ![p].rank =
                                  1 + Cardinality({q \in Procs : race[q].rank > 0})]
           ELSE /\ race' = [race EXCEPT ![p].pc = "done",
                                        ![p].resp = Failure(c.raised, 500, "")]
                /\ UNCHANGED dbvars
    /\ UNCHANGED <<reqvars, calcvars>>

\* lines 169-173, progress_calculator.py lines 68-118: the calculator reads
\* the student, the Ledger and the ProgressRecord and sets the new values
RaceCalculate(p) ==
    /\ race[p].pc = "recalc"
    /\ race' = [race EXCEPT
                  ![p].pc = "calc",
                  ![p].loaded = DB,
                  ![p].pending = calculate_student_progress(DB, RaceStudent)]
    /\ UNCHANGED <<dbvars, reqvars, calcvars>>

\* progress_calculator.py line 120: the calculator's commit; then
\* lines 175-189: the response
RaceCalcCommit(p) ==
    /\ race[p].pc = "calc"
    /\ SetDB(FlushSession(DB, race[p].loaded, race[p].pending).db)
    /\ race' = [race EXCEPT ![p].pc = "done", ![p].resp = Response(race[p].loc)]
    /\ UNCHANGED <<reqvars, calcvars>>

InitRace ==
    /\ \E n \in {0, 1} : InitDB(SeedDB(n)) /\ before = SeedDB(n)
    /\ race \in {[p \in Procs |-> NewProc(RaceRequest(n[p], st[p]))] :
                    n \in [Procs -> LessonPool], st \in [Procs -> RaceStatuses]}
    /\ pc = "idle"
    /\ req = NoReq
    /\ sess = NoSess
    /\ loc = NewLocals
    /\ resp = NoResp
    /\ npairs = 0
    /\ limit = 0
    /\ status_map = EmptyStatusMap
    /\ sections_out = calculate_all_skill_sections(EmptyStatusMap)
    /\ nedits = 0
    /\ student_grade = NoGrade
    /\ progress_out = NoProgress

NextRace ==
    \E p \in Procs :
        \/ RaceSubmitEntry(p)
        \/ RaceSubmitCommit(p)
        \/ RaceCalculate(p)
        \/ RaceCalcCommit(p)

SpecRace == InitRace /\ [][NextRace]_vars

-----------------------------------------------------------------------------
(* Claims about concurrent requests *)

RaceDone == \A p \in Procs : race[p].pc = "done"
RaceLesson(p) == race[p].req.lesson_id
RaceStatus(p) == race[p].req.students[1].status

\* C25: two requests at once for the same (student, lesson) with different
\* outcomes both complete, and the Ledger ends with exactly one current
\* record of the pair, holding the status of the request that committed last
C25_LastCommitWins ==
    (/\ RaceDone
     /\ RaceLesson(1) = RaceLesson(2)
     /\ RaceStatus(1) # RaceStatus(2))
    => /\ \A p \in Procs : race[p].resp.code = 201
       /\ LET rows == CurrentRows(lesson_status, RaceStudent, RaceLesson(1))
          IN  /\ Cardinality(rows) = 1
              /\ \A i \in rows : \A p \in Procs :
                    race[p].rank = 2 => lesson_status[i].status = RaceStatus(p)

\* C26: two requests at once for the same student and different lessons:
\* when both have returned, the Ledger has both records, and current_lesson
\* and the ProgressRecord are those recomputed from the final Ledger
C26_NoStaleProgress ==
    (/\ RaceDone
     /\ \A p \in Procs : race[p].resp.code = 201
     /\ RaceLesson(1) # RaceLesson(2))
    => /\ \A p \in Procs :
            \E i \in CurrentRows(lesson_status, RaceStudent, RaceLesson(p)) :
                lesson_status[i].status = RaceStatus(p)
       /\ ProgressIsCurrent(DB, RaceStudent)

\* the first and the last of the two requests to commit their entry
RaceRanked(k) == CHOOSE p \in Procs : race[p].rank = k

\* the student's statuses as the Ledger holds them, and as it held them
\* before the request that committed last wrote its record
RaceFinalStatuses == StudentStatuses(DB, RaceStudent, FALSE)
RaceStaleStatuses ==
    LET n == LessonNumber(RaceLesson(RaceRanked(2)))
    IN  [RaceFinalStatuses EXCEPT ![n] = StudentStatuses(before, RaceStudent, FALSE)[n]]

ProgressColumnNames ==
    {"foundational_count", "foundational_pct", "min_grade_count", "min_grade_pct",
     "full_grade_count", "full_grade_pct", "benchmark_count", "benchmark_pct",
     "skill_sections"}

RaceReturned ==
    /\ RaceDone
    /\ \A p \in Procs : race[p].resp.code = 201
    /\ RaceLesson(1) # RaceLesson(2)

\* C26: two requests at once for the same student and different lessons:
\* when both have returned, the Ledger has both records, the student has one
\* ProgressRecord, and current_lesson and each column of the ProgressRecord
\* hold a value computed either from the final Ledger or from the Ledger
\* without the record of the request that committed last
C26_ProgressFromLedgerRead ==
    RaceReturned
    => /\ \A p \in Procs :
            \E i \in CurrentRows(lesson_status, RaceStudent, RaceLesson(p)) :
                lesson_status[i].status = RaceStatus(p)
       /\ Cardinality(ProgressRecordsOf(progress_record, RaceStudent)) = 1
       /\ LET read == {RaceFinalStatuses, RaceStaleStatuses}
              grade_config == GradeConfig(student[RaceStudent].grade)
          IN  /\ \E m \in read :
                    student[RaceStudent].current_lesson = calculate_current_lesson(m)
              /\ \A i \in ProgressRecordsOf(progress_record, RaceStudent) :
                 \A c \in ProgressColumnNames :
                    \E m \in read :
                        progress_record[i][c] = ProgressColumns(m, grade_config)[c]

\* both requests have returned and the ProgressRecord is not the one
\* computed from the final Ledger
C26_Witness == RaceReturned /\ ~ProgressIsCurrent(DB, RaceStudent)

-----------------------------------------------------------------------------
(* The archive's contents *)

\* lines 98-124: the snapshot {lesson number: status} of the student's
\* initial-assessment or current-progress LessonStatus rows, None when the
\* student has none
SnapshotOf(db, sid, is_initial) ==
    LET m == StudentStatuses(db, sid, is_initial)
    IN  IF \A l \in DOMAIN m : m[l] = NoStatus THEN None
        ELSE [l \in {k \in DOMAIN m : m[k] # NoStatus} |-> m[l]]

\* C28: when unenroll_student has been called for a student of the table
\* and every student of the table has Ledger contents, the call has left the
\* Ledger as it was and has added one StudentArchive whose current-progress
\* and initial-assessment maps are those of the student's Ledger and whose
\* summary holds the student's ProgressRecords and current_lesson as they
\* were before the call
C28_ArchiveHoldsLedger ==
    (/\ pc = "done" /\ resp.op = "unenroll_student"
     /\ resp.raised # "ValueError"
     /\ \A sid \in Students : LedgerOf(before.lesson_status, sid) # {}) =>
        /\ lesson_status = before.lesson_status
        /\ Len(student_archive) = Len(before.student_archive) + 1
        /\ LET archive == student_archive[Len(student_archive)]
               sid == archive.student_id
           IN  /\ archive.ufli_map_data = SnapshotOf(before, sid, FALSE)
               /\ archive.initial_assessment_data = SnapshotOf(before, sid, TRUE)
               /\ archive.grade_summary_data.progress_records =
                     {before.progress_record[i] :
                         i \in {j \in DOMAIN before.progress_record :
                                   before.progress_record[j].student_id = sid}}
               /\ archive.grade_summary_data.current_lesson =
                     before.student[sid].current_lesson

-----------------------------------------------------------------------------
(* The sections of a lesson *)

\* a passed lesson is recorded into the status map and the sections are
\* calculated again, up to MaxPassed times
MaxPassed == 1

RecordPassed ==
    /\ nedits < MaxPassed
    /\ \E l \in AllLessons : status_map' = [status_map EXCEPT ![l] = "Y"]
    /\ sections_out' = calculate_all_skill_sections(status_map')
    /\ nedits' = nedits + 1
    /\ UNCHANGED <<dbvars, reqvars, student_grade, progress_out, race>>

NextSections == RecordPassed

SpecSections == InitCalc /\ [][NextSections]_vars

\* the sections whose lesson list holds the lesson
SectionsOf(l) == {id \in SectionIds : l \in SKILL_SECTIONS[id]}

\* the lessons whose status the step changes, and the sections whose
\* percentage it changes
ChangedLessons == {l \in AllLessons : status_map'[l] # status_map[l]}
ChangedSections == {id \in SectionIds : sections_out'[id] # sections_out[id]}

\* the step records Y for a lesson that was not Y
RecordsY == ChangedLessons # {} /\ \A l \in ChangedLessons : status_map'[l] = "Y"

\* C29 as stated: the lesson of a recorded Y belongs to exactly one section
\* and the Y changes the percentage of at most one section
C29_OneSectionPerLesson ==
    [][RecordsY =>
          /\ \A l \in ChangedLessons : Cardinality(SectionsOf(l)) = 1
          /\ Cardinality(ChangedSections) <= 1]_vars

\* C29: every lesson 1..128 belongs to one section, except lessons 25 and 27,
\* which belong to sections 1 and 2; a recorded Y changes the percentage of
\* sections of its lesson only, so of at most two sections
C29_SectionsOfLesson ==
    [][RecordsY =>
          /\ \A l \in ChangedLessons :
                SectionsOf(l) = IF l \in {25, 27} THEN {1, 2}
                                ELSE {CHOOSE id \in SectionIds : l \in SKILL_SECTIONS[id]}
          /\ ChangedSections \subseteq UNION {SectionsOf(l) : l \in ChangedLessons}
          /\ Cardinality(ChangedSections) <= 2]_vars

\* a Y recorded for lesson 25 on an empty map has changed sections 1 and 2
C29_Witness ==
    /\ nedits = 1
    /\ status_map = [EmptyStatusMap EXCEPT ![25] = "Y"]
    /\ {id \in SectionIds :
           sections_out[id] # calculate_all_skill_sections(EmptyStatusMap)[id]} = {1, 2}

-----------------------------------------------------------------------------
(* update_student, app/api/students.py lines 180-235.  The model's student *)
(* rows carry the grade and the status; the name and the group of the      *)
(* request are columns the model does not hold.  A grade_id is the name of *)
(* its grade; the grades of the caller's site are those of the catalog.    *)

\* a field the StudentUpdate leaves out (None in the schema)
Omitted == ""
\* the grade_id and status of a StudentUpdate; "G0" is a grade_id of no grade
UpdateGrades == {Omitted, "KG", "G1", "G4", "G0"}
UpdateStatuses == {Omitted, "inactive"}
UpdateStudentIds == {"s1", "s2", "s0"}

\* lines 190-232: 404 for a student that is not of the site, 400 for a
\* grade that is not of the site; the fields given are assigned and
\* committed.  Nothing is calculated.
update_student(db, student_id, student_data, site_id) ==
    LET sid == FindStudent(db.student, student_id, site_id)
        row == db.student[sid]
        graded == IF student_data.grade_id # Omitted
                  THEN [row EXCEPT !.grade = student_data.grade_id] ELSE row
        updated == IF student_data.status # Omitted
                   THEN [graded EXCEPT !.status = student_data.status] ELSE graded
    IN  IF sid = ""
        THEN [db |-> db, raised |-> "HTTPException", code |-> 404]
        ELSE IF student_data.grade_id # Omitted /\ student_data.grade_id \notin GradeNames
        THEN [db |-> db, raised |-> "HTTPException", code |-> 400]
        ELSE [db |-> [db EXCEPT !.student[sid] = updated], raised |-> "", code |-> 200]

\* a database in which both students have passed lesson 25
PassedDB ==
    create_lesson_entries(SeedDB(1),
        SeedContext("g1", "t1", 3, 30600, 25) @@
            [students |-> <<[student_id |-> "s1", status |-> "Y"],
                            [student_id |-> "s2", status |-> "Y"]>>]).db

InitStudents ==
    /\ \E db \in {DB0, SeedDB(Len(SeedRequests)), PassedDB} : InitDB(db) /\ before = db
    /\ pc = "idle"
    /\ req = NoReq
    /\ sess = NoSess
    /\ loc = NewLocals
    /\ resp = NoResp
    /\ npairs = 0
    /\ limit = 0
    /\ status_map = EmptyStatusMap
    /\ sections_out = calculate_all_skill_sections(EmptyStatusMap)
    /\ nedits = 0
    /\ student_grade = NoGrade
    /\ progress_out = NoProgress
    /\ race = NoRace

UpdateStudent ==
    \E student_id \in UpdateStudentIds, g \in UpdateGrades, st \in UpdateStatuses :
        LET r == update_student(DB, student_id, [grade_id |-> g, status |-> st], SiteId)
        IN  /\ pc = "idle"
            /\ SetDB(r.db)
            /\ pc' = "done"
            /\ resp' = [op |-> "update_student", raised |-> r.raised, code |-> r.code,
                        student_id |-> student_id]
            /\ UNCHANGED <<req, sess, loc, npairs, limit, before, calcvars, race>>

NextStudents ==
    \/ UpdateStudent
    \/ Recalculate
    \/ Return

SpecStudents == InitStudents /\ [][NextStudents]_vars

\* update_student has answered and has changed the student's grade
GradeChanged ==
    /\ pc = "done" /\ resp.op = "update_student" /\ resp.code = 200
    /\ student[resp.student_id].grade # before.student[resp.student_id].grade

\* C30: when update_student has changed a student's grade, the min-grade,
\* full-grade and benchmark counts and percentages of the student's
\* ProgressRecord are those computed from the Ledger with the configuration
\* of the new grade
C30_ProgressFollowsGrade ==
    GradeChanged =>
        LET sid == resp.student_id
            cols == ProgressColumns(StudentStatuses(DB, sid, FALSE),
                                    GradeConfig(student[sid].grade))
        IN  \A i \in ProgressRecordsOf(progress_record, sid) :
            \A c \in {"min_grade_count", "min_grade_pct", "full_grade_count",
                      "full_grade_pct", "benchmark_count", "benchmark_pct"} :
                progress_record[i][c] = cols[c]
=============================================================================
